---- MODULE Spec2Model ----
(***************************************************************************)
(* Model of the Airbnb analytics core: the field parsers, the loader and   *)
(* cleaner, the filter engine and the metric engine of data_processor.py,  *)
(* and the runs of main in dashboard.py with load_data behind its cache.   *)
(*                                                                         *)
(* Cells.  A cell of the table is a record [t, m, e, s]:                   *)
(*   t = "nan"  the missing sentinel (NaN)                                 *)
(*   t = "num"  the finite decimal number m / 10^e, e >= 0, normalised so  *)
(*              that m has no trailing zero while e > 0                    *)
(*   t = "inf"  an infinite float, m = 1 or -1 its sign                    *)
(*   t = "str"  the text s, a sequence of one-character strings            *)
(*   t = "raise" a call that ended with an exception, s = <<its name>>     *)
(* Every cell has the same four fields so that cells of different kinds    *)
(* can be compared and collected in one set.                               *)
(***************************************************************************)
EXTENDS Integers, Sequences, FiniteSets, TLC

\* Longest raw text cell the parsers are run on.
MaxLen == 4

\* Most rows of a raw input file.
MaxRows == 2

VARIABLES
    cell,   \* the raw cell a field parser is applied to
    call,   \* that parser call and what it returned
    raw,    \* the rows read_csv gives for the input file
    pc,     \* "start", "idle" (cleaned set loaded), "returned", "failed"
    df,     \* the cleaned record set load_and_clean_data returned
    stats,  \* the statistics it returned with it
    args,   \* the arguments of the last call on the cleaned set
    ret,    \* what that call returned
    prev,   \* the filter_data call whose result the last call was made on
    files,  \* what is at the two paths load_data tries
    cache,  \* the entry st.cache_data keeps for load_data
    loads,  \* how often the body of load_data has run
    runs,   \* how many runs of main the session has started
    main_error,  \* the error main got from load_data, "none" for None
    page    \* what the current run of main has put on the page

pvars == <<cell, call>>

dvars == <<raw, pc, df, stats, args, ret>>

svars == <<files, cache, loads, runs, main_error, page>>

vars == <<cell, call, raw, pc, df, stats, args, ret, prev, files, cache, loads, runs, main_error, page>>

------------------------------------------------------------------------------
(* Cells *)

Missing == [t |-> "nan", m |-> 0, e |-> 0, s |-> <<>>]

RECURSIVE Norm(_, _)
Norm(m, e) ==
    IF e > 0 /\ m % 10 = 0 THEN Norm(m \div 10, e - 1)
    ELSE [t |-> "num", m |-> m, e |-> e, s |-> <<>>]

Num(m) == Norm(m, 0)

Inf(sign) == [t |-> "inf", m |-> sign, e |-> 0, s |-> <<>>]

Str(s) == [t |-> "str", m |-> 0, e |-> 0, s |-> s]

Raise(name) == [t |-> "raise", m |-> 0, e |-> 0, s |-> <<name>>]

\* pd.isna(value) on a scalar
isna(value) == value.t = "nan"

\* isinstance(value, (int, float)): the floats read_csv produces (numpy.float64
\* is a subclass of float).  An integer cell is a numpy.int64, which is not an
\* instance of int: it takes the string branch, where str() prints its digits
\* and float() reads them back, giving the same number.
IsNumeric(value) == value.t \in {"num", "inf"}

RECURSIVE Pow10(_)
Pow10(n) == IF n = 0 THEN 1 ELSE 10 * Pow10(n - 1)

------------------------------------------------------------------------------
(* Text *)

Digits == {"0", "1", "2", "3", "4", "5", "6", "7", "8", "9"}

DigitVal(c) ==
    CASE c = "0" -> 0 [] c = "1" -> 1 [] c = "2" -> 2 [] c = "3" -> 3 [] c = "4" -> 4
      [] c = "5" -> 5 [] c = "6" -> 6 [] c = "7" -> 7 [] c = "8" -> 8 [] c = "9" -> 9

\* The characters the raw text of the parser runs is drawn from: three
\* digits, both separators, a currency symbol, a space, a sign and a letter.
Alphabet == {"0", "1", "5", ",", ".", "$", " ", "-", "x"}

CurrencySymbols == {"$", "EUR", "GBP"}

Texts == UNION {[1..n -> Alphabet] : n \in 0..MaxLen}

RECURSIVE RemoveAll(_, _)
\* str.replace(c, '') for each c of chars
RemoveAll(s, chars) ==
    IF s = <<>> THEN <<>>
    ELSE IF Head(s) \in chars THEN RemoveAll(Tail(s), chars)
    ELSE <<Head(s)>> \o RemoveAll(Tail(s), chars)

RECURSIVE ReplaceAll(_, _, _)
\* str.replace(old, new)
ReplaceAll(s, old, new) ==
    IF s = <<>> THEN <<>>
    ELSE <<IF Head(s) = old THEN new ELSE Head(s)>> \o ReplaceAll(Tail(s), old, new)

RECURSIVE LStrip(_)
LStrip(s) == IF s # <<>> /\ Head(s) = " " THEN LStrip(Tail(s)) ELSE s

RECURSIVE RStrip(_)
RStrip(s) ==
    IF s # <<>> /\ s[Len(s)] = " " THEN RStrip(SubSeq(s, 1, Len(s) - 1)) ELSE s

\* str.strip()
Strip(s) == RStrip(LStrip(s))

\* c in s
Contains(s, c) == \E i \in 1..Len(s) : s[i] = c

\* len(s.split(',')[-1]): the number of characters after the last comma
LastPartLen(s) ==
    LET commas == {i \in 1..Len(s) : s[i] = ","}
        last == CHOOSE i \in commas : \A j \in commas : j <= i
    IN IF commas = {} THEN Len(s) ELSE Len(s) - last

RECURSIVE DigitsVal(_)
\* the value of a run of decimal digits
DigitsVal(s) ==
    IF s = <<>> THEN 0
    ELSE 10 * DigitsVal(SubSeq(s, 1, Len(s) - 1)) + DigitVal(s[Len(s)])

\* the digits of an unsigned literal b whose only period, if any, is at dot
Literal(b, dot, neg) ==
    LET ip == SubSeq(b, 1, dot - 1)
        fp == SubSeq(b, dot + 1, Len(b))
        mag == DigitsVal(ip) * Pow10(Len(fp)) + DigitsVal(fp)
    IN IF Len(ip) + Len(fp) >= 1
       THEN Norm(IF neg THEN -mag ELSE mag, Len(fp))
       ELSE Raise("ValueError")

Unsigned(b, dots, neg) ==
    IF Cardinality(dots) <= 1 /\ \A i \in 1..Len(b) : b[i] \in Digits \/ b[i] = "."
    THEN Literal(b, IF dots = {} THEN Len(b) + 1 ELSE CHOOSE i \in dots : TRUE, neg)
    ELSE Raise("ValueError")

Signed(b, neg) == Unsigned(b, {i \in 1..Len(b) : b[i] = "."}, neg)

Stripped(t) ==
    IF t # <<>> /\ Head(t) = "-" THEN Signed(Tail(t), TRUE) ELSE Signed(t, FALSE)

\* float(s) on text without letters: surrounding whitespace is ignored, then
\* an optional minus sign, then digits with at most one period and at least
\* one digit.  Anything else is a ValueError.
ParseFloat(s) == Stripped(Strip(s))

\* rounding down instead: -2.7 gives -3
TruncIntFloor(x) ==
    IF x.t = "inf" THEN Raise("OverflowError")
    ELSE Num(x.m \div Pow10(x.e))

\* int(x) for a float x: truncation toward zero; an infinity has no integer
TruncInt(x) ==
    IF x.t = "inf" THEN Raise("OverflowError")
    ELSE IF x.m < 0 THEN Num(-((-x.m) \div Pow10(x.e)))
    ELSE Num(x.m \div Pow10(x.e))

\* try: ... except ValueError: return np.nan
OrMissing(r) == IF r.t = "raise" THEN Missing ELSE r

------------------------------------------------------------------------------
(* Field parsers *)

\* the parser without its `value == 0` test
convert_european_decimal_keep_zero(value) ==
    IF isna(value) \/ value = Str(<<>>) THEN Missing
    ELSE IF IsNumeric(value) THEN value
    ELSE OrMissing(ParseFloat(ReplaceAll(Strip(value.s), ",", ".")))

\* 0.0 for NaN: a parsed zero made missing like a numeric zero
ZeroIsMissing(x) == IF x = Num(0) THEN Missing ELSE x

\* a conversion that also gives missing for a text that denotes zero
convert_european_decimal_zero_text_missing(value) ==
    IF isna(value) \/ value = Str(<<>>) \/ value = Num(0) THEN Missing
    ELSE IF IsNumeric(value) THEN value
    ELSE ZeroIsMissing(OrMissing(ParseFloat(ReplaceAll(Strip(value.s), ",", "."))))

convert_european_decimal(value) ==
    IF isna(value) \/ value = Str(<<>>) \/ value = Num(0) THEN Missing
    ELSE IF IsNumeric(value) THEN value
    ELSE OrMissing(ParseFloat(ReplaceAll(Strip(value.s), ",", ".")))

\* the rule with the test turned round: three characters after the last
\* comma make it a thousands separator, anything else a decimal point
CommaRuleThreeIsThousands(cleaned) ==
    IF Contains(cleaned, ",") /\ ~Contains(cleaned, ".")
    THEN IF LastPartLen(cleaned) = 3
         THEN RemoveAll(cleaned, {","})
         ELSE ReplaceAll(cleaned, ",", ".")
    ELSE cleaned

\* lines 92 to 98: a comma without a period is the decimal point when two
\* characters follow the last comma, a thousands separator otherwise
CommaRule(cleaned) ==
    IF Contains(cleaned, ",") /\ ~Contains(cleaned, ".")
    THEN IF LastPartLen(cleaned) = 2
         THEN ReplaceAll(cleaned, ",", ".")
         ELSE RemoveAll(cleaned, {","})
    ELSE cleaned

clean_price(value) ==
    IF isna(value) \/ value = Str(<<>>) THEN Missing
    ELSE IF IsNumeric(value) THEN value
    ELSE OrMissing(ParseFloat(CommaRule(
            RemoveAll(RemoveAll(Strip(value.s), CurrencySymbols), {" "}))))

\* int(float(value)): the ValueError of float() is caught, the OverflowError
\* of int() is not
IntOfFloat(f) == IF f.t = "raise" THEN Missing ELSE TruncInt(f)

clean_host_since(value) ==
    IF isna(value) \/ value = Str(<<>>) THEN Missing
    ELSE IntOfFloat(IF value.t = "str" THEN ParseFloat(value.s) ELSE value)

------------------------------------------------------------------------------
(* Arithmetic and comparison of cells, as numpy does them on a float column *)

\* a >= b; a comparison with NaN is False
GE(a, b) ==
    /\ IsNumeric(a) /\ IsNumeric(b)
    /\ IF a.t = "inf" THEN a.m = 1 \/ (b.t = "inf" /\ b.m = -1)
       ELSE IF b.t = "inf" THEN b.m = -1
       ELSE a.m * Pow10(b.e) >= b.m * Pow10(a.e)

LE(a, b) == GE(b, a)

\* a * b; NaN propagates, and a text operand is a TypeError
Mul(a, b) ==
    IF a.t = "str" \/ b.t = "str" THEN Raise("TypeError")
    ELSE IF isna(a) \/ isna(b) THEN Missing
    ELSE IF a.t = "inf" \/ b.t = "inf"
         THEN IF a.m = 0 \/ b.m = 0 THEN Missing
              ELSE Inf(IF (a.m > 0) = (b.m > 0) THEN 1 ELSE -1)
    ELSE Norm(a.m * b.m, a.e + b.e)

------------------------------------------------------------------------------
(* Fixed lookup tables *)

\* The missing value of a text column (city, area).
NaN == "NaN"

ROOM_TYPE_MAP ==
    (1 :> "Private Room") @@ (2 :> "Entire Home/Apt") @@
    (3 :> "Shared Room") @@ (4 :> "Hotel Room")

CITY_COORDINATES ==
    ("Toronto" :> [lat |-> Norm(436532, 4), lon |-> Norm(-793832, 4)]) @@
    ("NewYork" :> [lat |-> Norm(407128, 4), lon |-> Norm(-740060, 4)]) @@
    ("Amsterdam" :> [lat |-> Norm(523676, 4), lon |-> Norm(49041, 4)]) @@
    ("Berlin" :> [lat |-> Norm(525200, 4), lon |-> Norm(134050, 4)]) @@
    ("Dublin" :> [lat |-> Norm(533498, 4), lon |-> Norm(-62603, 4)]) @@
    ("Hongkong" :> [lat |-> Norm(223193, 4), lon |-> Norm(1141694, 4)]) @@
    ("Munich" :> [lat |-> Norm(481351, 4), lon |-> Norm(115820, 4)]) @@
    ("Singapore" :> [lat |-> Norm(13521, 4), lon |-> Norm(1038198, 4)]) @@
    ("Sydney" :> [lat |-> Norm(-338688, 4), lon |-> Norm(1512093, 4)]) @@
    ("Tokyo" :> [lat |-> Norm(356762, 4), lon |-> Norm(1396503, 4)])

CORRECT_CITY_AREA ==
    ("Toronto" :> "North America") @@ ("NewYork" :> "North America") @@
    ("Amsterdam" :> "Europe") @@ ("Berlin" :> "Europe") @@
    ("Dublin" :> "Europe") @@ ("Munich" :> "Europe") @@
    ("Hongkong" :> "Asia") @@ ("Singapore" :> "Asia") @@
    ("Sydney" :> "Oceania") @@ ("Tokyo" :> "Asia")

\* Every label of the model in the order Python's sorted() gives strings.
LabelOrder ==
    <<"Amsterdam", "Asia", "Atlantis", "Berlin", "Dublin", "Entire Home/Apt",
      "Europe", "Hongkong", "Hotel Room", "Munich", "NewYork", "North America",
      "Oceania", "Private Room", "Shared Room", "Singapore", "Sydney", "Tokyo",
      "Toronto", "Unknown">>

------------------------------------------------------------------------------
(* Loader / cleaner *)

\* Series.map(ROOM_TYPE_MAP) on one cell: a label for the codes 1..4, NaN for
\* anything else (another number, a missing cell, text).
MapRoomType(code) ==
    IF code.t = "num" /\ code.e = 0 /\ code.m \in DOMAIN ROOM_TYPE_MAP
    THEN ROOM_TYPE_MAP[code.m] ELSE NaN

\* Series.fillna(value) on one text cell
fillna(x, value) == IF x = NaN THEN value ELSE x

\* Series.fillna(value) on one numeric cell
fillnaNum(x, value) == IF isna(x) THEN value ELSE x

\* the room_type_decoded of a row: lines 154 and 156
DecodeRoomTypeNoFill(row) == MapRoomType(row["room_type"])

DecodeRoomType(row) == fillna(MapRoomType(row["room_type"]), "Unknown")

\* Series.map(CORRECT_CITY_AREA) on one cell
MapCityArea(city) ==
    IF city \in DOMAIN CORRECT_CITY_AREA THEN CORRECT_CITY_AREA[city] ELSE NaN

\* the corrected area of a row: the table's value, the raw area as a fallback
CorrectAreaRawFirst(row) == fillna(row["area"], MapCityArea(row["city"]))

CorrectArea(row) == fillna(MapCityArea(row["city"]), row["area"])

\* CITY_COORDINATES.get(x, {}).get(key, np.nan)
Coordinate(city, key) ==
    IF city \in DOMAIN CITY_COORDINATES THEN CITY_COORDINATES[city][key]
    ELSE Missing

\* fillna(0).astype(bool) on one cell
AsBool(x) ==
    CASE x.t = "nan" -> FALSE
      [] x.t = "num" -> x.m # 0
      [] x.t = "inf" -> TRUE
      [] x.t = "str" -> x.s # <<>>

\* pd.to_numeric(errors='coerce') on one cell
to_numeric(x) == IF x.t = "str" THEN OrMissing(ParseFloat(x.s)) ELSE x

\* Steps 1 to 12 on one row: the derived columns and the corrected area.
Derive(row) ==
    ("price_clean" :> clean_price(row["price"])) @@
    ("bathrooms_clean" :> convert_european_decimal(row["bathrooms"])) @@
    ("consumer_clean" :> convert_european_decimal(row["consumer"])) @@
    ("host_response_rate_clean" :>
        convert_european_decimal(row["host response rate"])) @@
    ("host_acceptance_rate_clean" :>
        convert_european_decimal(row["host acceptance rate"])) @@
    ("room_type_decoded" :> DecodeRoomType(row)) @@
    ("revenue_estimate" :> Mul(clean_price(row["price"]), row["sales"])) @@
    ("host_since_clean" :> clean_host_since(row["host since"])) @@
    ("city_lat" :> Coordinate(row["city"], "lat")) @@
    ("city_lon" :> Coordinate(row["city"], "lon")) @@
    ("host_certified" :> AsBool(row["host Certification"])) @@
    ("guest_favourite" :> AsBool(row["guest favourite"])) @@
    ("area" :> CorrectArea(row)) @@
    row

\* Step 13 on one row: the count columns coerced to numbers.
Coerce(row) ==
    ("accommodates" :> to_numeric(row["accommodates"])) @@
    ("bedrooms" :> to_numeric(row["bedrooms"])) @@
    ("beds" :> to_numeric(row["beds"])) @@
    ("total reviewers number" :> to_numeric(row["total reviewers number"])) @@
    ("sales" :> to_numeric(row["sales"])) @@
    row

\* a fill that also puts 0 where the revenue estimate is missing
FillWithRevenue(row) ==
    ("bedrooms" :> fillnaNum(row["bedrooms"], Num(0))) @@
    ("bathrooms_clean" :> fillnaNum(row["bathrooms_clean"], Num(1))) @@
    ("beds" :> fillnaNum(row["beds"], Num(1))) @@
    ("revenue_estimate" :> fillnaNum(row["revenue_estimate"], Num(0))) @@
    row

\* The fallback fill on one row.
Fill(row) ==
    ("bedrooms" :> fillnaNum(row["bedrooms"], Num(0))) @@
    ("bathrooms_clean" :> fillnaNum(row["bathrooms_clean"], Num(1))) @@
    ("beds" :> fillnaNum(row["beds"], Num(1))) @@
    row

\* the cleaning steps with the fill moved before the numeric coercion
CleanRowFillBeforeCoerce(row) == Coerce(Fill(Derive(row)))

\* The cleaning steps on one row, in the order of the code.
CleanRow(row) == Fill(Coerce(Derive(row)))

\* the values of a column, as a set
Column(frame, col) == {frame[i][col] : i \in 1..Len(frame)}

\* Series.nunique(): the distinct values that are not missing
nunique(frame, col) == Cardinality(Column(frame, col) \ {NaN})

\* sorted() compares its elements: a string against the float NaN is a
\* TypeError, a list of one element is never compared
SortRaises(frame, col) ==
    LET u == Column(frame, col) IN NaN \in u /\ u # {NaN}

\* sorted(Series.unique().tolist()) of a text column
SortedUnique(frame, col) ==
    LET u == Column(frame, col)
    IN IF u = {NaN} THEN <<NaN>>
       ELSE SelectSeq(LabelOrder, LAMBDA l : l \in u)

\* Series.max() / Series.min() of a numeric column: missing cells are skipped
ColMax(frame, col) ==
    LET v == {x \in Column(frame, col) : ~isna(x)}
    IN IF v = {} THEN Missing ELSE CHOOSE x \in v : \A y \in v : GE(x, y)

ColMin(frame, col) ==
    LET v == {x \in Column(frame, col) : ~isna(x)}
    IN IF v = {} THEN Missing ELSE CHOOSE x \in v : \A y \in v : LE(x, y)

NoStats == [total_listings |-> 0, original_count |-> 0, cities |-> 0, areas |-> 0,
            unique_cities |-> <<>>, unique_areas |-> <<>>,
            unique_room_types |-> <<>>,
            price_range |-> [min |-> Missing, max |-> Missing]]

\* The statistics dictionary (the counts, the sorted unique lists and the
\* price range; the averages and the other ranges are not modelled).
Statistics(frame, original_count) ==
    [total_listings |-> Len(frame),
     original_count |-> original_count,
     cities |-> nunique(frame, "city"),
     areas |-> nunique(frame, "area"),
     unique_cities |-> SortedUnique(frame, "city"),
     unique_areas |-> SortedUnique(frame, "area"),
     unique_room_types |-> SortedUnique(frame, "room_type_decoded"),
     price_range |-> [min |-> ColMin(frame, "price_clean"),
                      max |-> ColMax(frame, "price_clean")]]

\* pd.read_csv gives the rows a RangeIndex: 0, 1, 2, ...
read_csv(file) == [i \in 1..Len(file) |-> ("index" :> i - 1) @@ file[i]]

\* The exception that ends the call on the cleaned frame, "none" without one.
LoadError(frame) ==
    IF \E i \in 1..Len(frame) : frame[i]["revenue_estimate"].t = "raise"
    THEN "TypeError"        \* line 159
    ELSE IF \E i \in 1..Len(frame) : frame[i]["host_since_clean"].t = "raise"
    THEN "OverflowError"    \* line 162
    ELSE IF SortRaises(frame, "city") \/ SortRaises(frame, "area")
    THEN "TypeError"        \* lines 195, 196
    ELSE "none"

Outcome(frame, original_count, error) ==
    IF error = "none"
    THEN [ok |-> TRUE, df |-> frame, stats |-> Statistics(frame, original_count),
          error |-> "none"]
    ELSE [ok |-> FALSE, df |-> <<>>, stats |-> NoStats, error |-> error]

\* a cleaning that also drops the records without a price
CleanedDropUnpriced(rows) ==
    SelectSeq([i \in 1..Len(rows) |-> CleanRow(rows[i])],
              LAMBDA r : ~isna(r["price_clean"]))

Cleaned(rows) == [i \in 1..Len(rows) |-> CleanRow(rows[i])]

\* original_count is len(df) as read, line 131; the statistics are computed
\* on the cleaned frame
LoadOutcome(rows, frame) == Outcome(frame, Len(rows), LoadError(frame))

\* load_and_clean_data on the rows of a readable file: the cleaned set and the
\* statistics, or the exception that ends the call.
load_and_clean_data(file) == LoadOutcome(read_csv(file), Cleaned(read_csv(file)))

------------------------------------------------------------------------------
(* Filter engine *)

\* An optional list argument: None, or a list with the given items.
NoneList == [given |-> FALSE, items |-> {}]

List(items) == [given |-> TRUE, items |-> items]

\* An optional (min, max) tuple argument.
NoRange == [given |-> FALSE, lo |-> Missing, hi |-> Missing]

Range(lo, hi) == [given |-> TRUE, lo |-> Num(lo), hi |-> Num(hi)]

\* `cities and len(cities) > 0`: None and the empty list are both falsy
ListGivenNotNone(l) == l.given

ListGiven(l) == l.given /\ l.items # {}

\* `if price_range:`: a tuple of two numbers is truthy
RangeGiven(pr) == pr.given

\* (price_clean >= price_range[0]) & (price_clean <= price_range[1])
InPriceRangeExclusive(row, pr) ==
    GE(row["price_clean"], pr.lo) /\ LE(row["price_clean"], pr.hi)
    /\ row["price_clean"] # pr.hi

InPriceRange(row, pr) ==
    GE(row["price_clean"], pr.lo) /\ LE(row["price_clean"], pr.hi)

\* df.copy()
copy(frame) == frame

\* filtered[mask] with the mask of the city, area and room type membership tests
KeepCities(frame, cities) ==
    IF ListGiven(cities)
    THEN SelectSeq(frame, LAMBDA r : r["city"] \in cities.items) ELSE frame

KeepAreas(frame, areas) ==
    IF ListGiven(areas)
    THEN SelectSeq(frame, LAMBDA r : r["area"] \in areas.items) ELSE frame

KeepRoomTypes(frame, room_types) ==
    IF ListGiven(room_types)
    THEN SelectSeq(frame, LAMBDA r : r["room_type_decoded"] \in room_types.items)
    ELSE frame

\* a price step that lets the records without a price through
KeepPriceRangeOrMissing(frame, price_range) ==
    IF RangeGiven(price_range)
    THEN SelectSeq(frame, LAMBDA r : isna(r["price_clean"])
                                        \/ InPriceRange(r, price_range))
    ELSE frame

KeepPriceRange(frame, price_range) ==
    IF RangeGiven(price_range)
    THEN SelectSeq(frame, LAMBDA r : InPriceRange(r, price_range)) ELSE frame

KeepMinReviewsStrict(frame, min_reviews) ==
    IF min_reviews > 0
    THEN SelectSeq(frame, LAMBDA r : GE(r["total reviewers number"], Num(min_reviews + 1)))
    ELSE frame

KeepMinReviews(frame, min_reviews) ==
    IF min_reviews > 0
    THEN SelectSeq(frame, LAMBDA r : GE(r["total reviewers number"], Num(min_reviews)))
    ELSE frame

KeepMinRating(frame, min_rating) ==
    IF GE(min_rating, Num(0)) /\ min_rating # Num(0)
    THEN SelectSeq(frame, LAMBDA r : GE(r["consumer_clean"], min_rating))
    ELSE frame

KeepGuestFavourites(frame, only) ==
    IF only THEN SelectSeq(frame, LAMBDA r : r["guest_favourite"] = TRUE) ELSE frame

KeepCertifiedHosts(frame, only) ==
    IF only THEN SelectSeq(frame, LAMBDA r : r["host_certified"] = TRUE) ELSE frame

\* The records matching the city list followed by those matching the area
\* list: an OR of the two predicates built with a concatenation.
filter_data_concat(frame, a) ==
    KeepCities(copy(frame), a.cities) \o KeepAreas(copy(frame), a.areas)

\* the first record of a frame, as a frame
FirstRecord(frame) == IF frame = <<>> THEN <<>> ELSE <<Head(frame)>>

\* a filter that returns at most the first record that passes
filter_data_first(frame, a) ==
    FirstRecord(KeepCertifiedHosts(KeepGuestFavourites(KeepMinRating(KeepMinReviews(
        KeepPriceRange(KeepRoomTypes(KeepAreas(KeepCities(copy(frame),
        a.cities), a.areas), a.room_types), a.price_range), a.min_reviews),
        a.min_rating), a.guest_favourites_only), a.certified_hosts_only))

filter_data(frame, a) ==
    LET f0 == copy(frame)
        f1 == KeepCities(f0, a.cities)
        f2 == KeepAreas(f1, a.areas)
        f3 == KeepRoomTypes(f2, a.room_types)
        f4 == KeepPriceRange(f3, a.price_range)
        f5 == KeepMinReviews(f4, a.min_reviews)
        f6 == KeepMinRating(f5, a.min_rating)
        f7 == KeepGuestFavourites(f6, a.guest_favourites_only)
        f8 == KeepCertifiedHosts(f7, a.certified_hosts_only)
    IN f8

\* What the caller's frame holds after filter_data(frame, a): the function
\* works on a copy and rebinds its local name, so the argument is untouched.
FrameAfterFilterInPlace(frame, a) == filter_data(frame, a)

FrameAfterFilter(frame, a) == frame

------------------------------------------------------------------------------
(* Metric / aggregation engine *)

\* a + b on floats
Add(a, b) ==
    IF isna(a) \/ isna(b) THEN Missing
    ELSE IF a.t = "inf" /\ b.t = "inf" THEN (IF a.m = b.m THEN a ELSE Missing)
    ELSE IF a.t = "inf" THEN a
    ELSE IF b.t = "inf" THEN b
    ELSE IF a.e >= b.e THEN Norm(a.m + b.m * Pow10(a.e - b.e), a.e)
    ELSE Norm(a.m * Pow10(b.e - a.e) + b.m, b.e)

\* A quotient num / den of two floats with den > 0, kept as the pair; NaN is
\* the pair with a missing numerator.
Ratio(num, den) == [num |-> num, den |-> den]

NaNRatio == Ratio(Missing, Num(1))

Zero == Ratio(Num(0), Num(1))

\* x > y for two quotients; False when either is NaN
RatioGT(x, y) ==
    /\ ~isna(x.num) /\ ~isna(y.num)
    /\ GE(Mul(x.num, y.den), Mul(y.num, x.den))
    /\ Mul(x.num, y.den) # Mul(y.num, x.den)

RECURSIVE SumCells(_)
\* the sum of the cells that are not missing; 0 when there is none
SumCells(cells) ==
    IF cells = <<>> THEN Num(0)
    ELSE IF isna(Head(cells)) THEN SumCells(Tail(cells))
    ELSE Add(Head(cells), SumCells(Tail(cells)))

ColSeq(frame, col) == [i \in 1..Len(frame) |-> frame[i][col]]

\* Series.sum()
Sum(frame, col) == SumCells(ColSeq(frame, col))

\* Series.count(): the cells that are not missing
Count(frame, col) == Cardinality({i \in 1..Len(frame) : ~isna(frame[i][col])})

\* a mean that divides by the number of rows, missing cells counted as 0
MeanOverAll(frame, col) ==
    IF Len(frame) = 0 THEN NaNRatio
    ELSE Ratio(Sum(frame, col), Num(Len(frame)))

\* Series.mean(): missing cells are left out of both the sum and the count
Mean(frame, col) ==
    IF Count(frame, col) = 0 THEN NaNRatio
    ELSE Ratio(Sum(frame, col), Num(Count(frame, col)))

\* Series.sum() of a boolean column
CountTrue(frame, col) == Cardinality({i \in 1..Len(frame) : frame[i][col]})

\* count / len * 100
Percent(count, len) == Ratio(Num(count * 100), Num(len))

\* group keys that keep NaN as a last key, as groupby(col, dropna=False)
KeysWithMissing(frame, col) ==
    SelectSeq(LabelOrder \o <<NaN>>, LAMBDA l : l \in Column(frame, col))

\* the group keys of groupby(col): the distinct values, sorted, NaN dropped
Keys(frame, col) == SelectSeq(LabelOrder, LAMBDA l : l \in Column(frame, col))

\* the rows of one group
Group(frame, col, key) == SelectSeq(frame, LAMBDA r : r[col] = key)

\* Series.idxmax() of the scores of the keys: the first key, in key order,
\* with the largest score that is not NaN.  Without a key the call raises
\* ValueError (argmax of an empty sequence); with keys whose scores are all
\* NaN the result depends on the pandas version: NaN or a ValueError.
IdxMax(keys, scores) ==
    LET valid == {i \in 1..Len(keys) : ~isna(scores[keys[i]].num)}
    IN IF keys = <<>> THEN {"ValueError"}
       ELSE IF valid = {} THEN {NaN, "ValueError"}
       ELSE {keys[i] : i \in {k \in valid :
                \A j \in valid :
                    /\ ~RatioGT(scores[keys[j]], scores[keys[k]])
                    /\ j < k => RatioGT(scores[keys[k]], scores[keys[j]])}}

\* the value score of the listings of one city: lines 294 to 296
ValueScore(group) ==
    IF RatioGT(Mean(group, "price_clean"), Zero)
    THEN Ratio(Mul(Mean(group, "consumer_clean").num, Mean(group, "price_clean").den),
               Mul(Mean(group, "consumer_clean").den, Mean(group, "price_clean").num))
    ELSE Zero

Sizes(frame, col) ==
    [k \in Column(frame, col) |-> Ratio(Num(Len(Group(frame, col, k))), Num(1))]

ValueScores(frame) ==
    [k \in Column(frame, "city") |-> ValueScore(Group(frame, "city", k))]

RevenueSums(frame) ==
    [k \in Column(frame, "city") |->
        Ratio(Sum(Group(frame, "city", k), "revenue_estimate"), Num(1))]

NoMetrics == [error |-> "none"]

\* the outcomes of a dictionary with the given arg-max results: the call
\* raises when one of them does
WithCities(dict, popular, best) ==
    IF popular = "ValueError" \/ best = "ValueError"
    THEN [error |-> "ValueError"]
    ELSE dict

\* the dictionary without its `if len(df) > 0 else` guards
calculate_guest_metrics_unguarded(frame) ==
    {WithCities(
        [error |-> "none",
         total_properties |-> Len(frame),
         avg_price |-> Mean(frame, "price_clean"),
         avg_rating |-> Mean(frame, "consumer_clean"),
         pct_favourites |-> Percent(CountTrue(frame, "guest_favourite"), Len(frame)),
         most_popular_city |-> popular,
         best_value_city |-> best], popular, best) :
        popular \in IdxMax(Keys(frame, "city"), Sizes(frame, "city")),
        best \in IdxMax(Keys(frame, "city"), ValueScores(frame))}

\* calculate_guest_metrics(df): the set of its possible outcomes
calculate_guest_metrics(frame) ==
    IF Len(frame) = 0
    THEN {[error |-> "none", total_properties |-> 0, avg_price |-> Zero,
           avg_rating |-> Zero, pct_favourites |-> Zero,
           most_popular_city |-> "N/A", best_value_city |-> "N/A"]}
    ELSE {WithCities(
            [error |-> "none",
             total_properties |-> Len(frame),
             avg_price |-> Mean(frame, "price_clean"),
             avg_rating |-> Mean(frame, "consumer_clean"),
             pct_favourites |-> Percent(CountTrue(frame, "guest_favourite"), Len(frame)),
             most_popular_city |-> popular,
             best_value_city |-> best], popular, best) :
            popular \in IdxMax(Keys(frame, "city"), Sizes(frame, "city")),
            best \in IdxMax(Keys(frame, "city"), ValueScores(frame))}

\* the distinct hosts: host_id values that are not missing
Hosts(frame) == {x \in Column(frame, "host_id") : ~isna(x)}

\* mean(sales) / 365 * 100
Occupancy(mean) == Ratio(Mul(mean.num, Num(100)), Mul(mean.den, Num(365)))

\* groupby('host_id').size().mean(): NaN without a host
ListingsPerHost(frame) ==
    IF Hosts(frame) = {} THEN NaNRatio
    ELSE Ratio(Num(Count(frame, "host_id")), Num(Cardinality(Hosts(frame))))

\* calculate_host_metrics(df): the set of its possible outcomes
calculate_host_metrics(frame) ==
    IF Len(frame) = 0
    THEN {[error |-> "none", total_revenue |-> Num(0), avg_occupancy |-> Zero,
           total_hosts |-> 0, avg_listings_per_host |-> Zero, pct_certified |-> Zero,
           best_city |-> "N/A"]}
    ELSE {WithCities(
            [error |-> "none",
             total_revenue |-> Sum(frame, "revenue_estimate"),
             avg_occupancy |-> Occupancy(Mean(frame, "sales")),
             total_hosts |-> Cardinality(Hosts(frame)),
             avg_listings_per_host |-> ListingsPerHost(frame),
             pct_certified |-> Percent(CountTrue(frame, "host_certified"), Len(frame)),
             best_city |-> best], best, best) :
            best \in IdxMax(Keys(frame, "city"), RevenueSums(frame))}

\* the mean of a boolean column: the share of True
MeanTrue(group, col) == Ratio(Num(CountTrue(group, col)), Num(Len(group)))

\* one row of the city table
CityStatsRow(group, key) ==
    [city |-> key,
     avg_price |-> Mean(group, "price_clean"),
     avg_rating |-> Mean(group, "consumer_clean"),
     total_reviews |-> Sum(group, "total reviewers number"),
     avg_bedrooms |-> Mean(group, "bedrooms"),
     avg_bathrooms |-> Mean(group, "bathrooms_clean"),
     pct_guest_favourite |-> MeanTrue(group, "guest_favourite"),
     total_revenue |-> Sum(group, "revenue_estimate"),
     avg_sales |-> Mean(group, "sales"),
     listing_count |-> Count(group, "id")]

\* one row of the area table
AreaStatsRow(group, key) ==
    [area |-> key,
     avg_price |-> Mean(group, "price_clean"),
     avg_rating |-> Mean(group, "consumer_clean"),
     total_revenue |-> Sum(group, "revenue_estimate"),
     total_sales |-> Sum(group, "sales"),
     listing_count |-> Count(group, "id")]

CityTable(frame, keys) ==
    [i \in 1..Len(keys) |-> CityStatsRow(Group(frame, "city", keys[i]), keys[i])]

AreaTable(frame, keys) ==
    [i \in 1..Len(keys) |-> AreaStatsRow(Group(frame, "area", keys[i]), keys[i])]

\* get_city_stats(df): one row per city, in key order
get_city_stats(frame) == CityTable(frame, Keys(frame, "city"))

\* get_area_stats(df): one row per area, in key order
get_area_stats(frame) == AreaTable(frame, Keys(frame, "area"))

\* What the caller's frame holds after a metric or table call: the functions
\* only read it.
FrameAfterMetrics(frame) == frame

------------------------------------------------------------------------------
(* The dashboard: load_data behind st.cache_data, and what main shows *)

\* What can be at one of the two paths: no file, a file that cannot be
\* opened or parsed, a file pd.read_csv reads.
FileStates == {"absent", "unreadable", "present"}

\* The triple load_data returns.  None is written as the frame without
\* records, the statistics of no records and the error "none".
Triple(frame, statistics, message) ==
    [df |-> frame, stats |-> statistics, error |-> message]

\* a handler that returns no message with the failure
FailedWithoutMessage(message) == Triple(<<>>, NoStats, "none")

\* except Exception as e: return None, None, str(e)
Failed(message) == Triple(<<>>, NoStats, message)

\* df, stats = load_and_clean_data(path); return df, stats, None
FromOutcome(o) == IF o.ok THEN Triple(o.df, o.stats, "none") ELSE Failed(o.error)

\* load_and_clean_data(path) with what is at the path: FileNotFoundError
\* without a file, another exception of read_csv for an unreadable one
LoadPath(state, file) ==
    IF state = "absent" THEN Outcome(<<>>, 0, "FileNotFoundError")
    ELSE IF state = "unreadable" THEN Outcome(<<>>, 0, "PermissionError")
    ELSE load_and_clean_data(file)

\* a body that tries the second path after any failure on the first
load_data_fallback_on_any_failure(fs, file) ==
    IF ~LoadPath(fs.primary, file).ok
    THEN FromOutcome(LoadPath(fs.fallback, file))
    ELSE FromOutcome(LoadPath(fs.primary, file))

\* The body of load_data: the second path is tried only after a
\* FileNotFoundError on the first.
load_data(fs, file) ==
    IF LoadPath(fs.primary, file).error = "FileNotFoundError"
    THEN FromOutcome(LoadPath(fs.fallback, file))
    ELSE FromOutcome(LoadPath(fs.primary, file))

\* The entry of st.cache_data for load_data, a function without arguments.
NoEntry == [hit |-> FALSE, value |-> Failed("none")]

Stored(value) == [hit |-> TRUE, value |-> value]

\* a call that runs the body and stores what it returned
Miss(value) == [value |-> value, entry |-> Stored(value), executed |-> 1]

\* a call answered from the entry
Hit(entry) == [value |-> entry.value, entry |-> entry, executed |-> 0]

\* load_data without the decorator: the body runs on every call
cache_data_every_call(entry, fs, file) == Miss(load_data(fs, file))

\* @st.cache_data: the body runs on the first call only
cache_data(entry, fs, file) ==
    IF entry.hit THEN Hit(entry) ELSE Miss(load_data(fs, file))

\* `if error:`
Truthy(message) == message # "none"

\* an emptiness test that never finds the set empty
NeverEmpty(frame) == FALSE

\* len(filtered_df) == 0
Empty(frame) == Len(frame) = 0

\* The three st.metric values of the sidebar.
NoSummary == [listings |-> 0, avg_price |-> Zero, cities |-> 0]

Summary(frame) ==
    [listings |-> Len(frame),
     avg_price |-> IF Len(frame) > 0 THEN Mean(frame, "price_clean") ELSE Zero,
     cities |-> IF Len(frame) > 0 THEN Cardinality(Column(frame, "city")) ELSE 0]

TextColumns == {"city", "area", "room_type_decoded"}

BoolColumns == {"host_certified", "guest_favourite"}

\* One field of the CSV text: a missing value is written as the empty
\* field, a boolean as True or False, a label or a number as it is.
Field(col, x) ==
    IF col \in TextColumns THEN (IF x = NaN THEN "" ELSE x)
    ELSE IF col \in BoolColumns THEN (IF x THEN "True" ELSE "False")
    ELSE IF col = "index" THEN x
    ELSE IF isna(x) THEN Str(<<>>)
    ELSE x

NoCsv == [columns |-> {}, lines |-> <<>>]

\* the header and one line per record, in the order of the frame
WriteCsv(frame, cols) ==
    [columns |-> cols,
     lines |-> [i \in 1..Len(frame) |-> [c \in cols |-> Field(c, frame[i][c])]]]

\* the columns of a frame; the row labels are its index, not a column
Columns(frame) == IF Len(frame) = 0 THEN {} ELSE DOMAIN frame[1] \ {"index"}

\* DataFrame.to_csv() with its default index=True
to_csv_with_index(frame, index) == WriteCsv(frame, Columns(frame) \cup {"index"})

\* DataFrame.to_csv(index=index)
to_csv(frame, index) ==
    WriteCsv(frame, IF index THEN Columns(frame) \cup {"index"} ELSE Columns(frame))

NoPage == [elements |-> {}, summary |-> NoSummary, csv |-> NoCsv]

\* The sidebar: the summary, and the download button when there are records.
SidebarPage(filtered) ==
    [elements |-> IF Len(filtered) > 0 THEN {"summary", "download"} ELSE {"summary"},
     summary |-> Summary(filtered),
     csv |-> IF Len(filtered) > 0 THEN to_csv(filtered, FALSE) ELSE NoCsv]

\* What the two tabs add to the page: the metrics that were computed, and the
\* exception that ended the run if one of the metric calls raised.
TabElements(guest, host) ==
    IF guest.error # "none" THEN {"tabs", "exception"}
    ELSE IF host.error # "none" THEN {"tabs", "guest_metrics", "exception"}
    ELSE {"tabs", "guest_metrics", "host_metrics", "charts"}

\* No session: nothing at the second path, nothing cached, nothing shown.
NoSession ==
    /\ files = [primary |-> "present", fallback |-> "absent"]
    /\ cache = NoEntry
    /\ loads = 0
    /\ runs = 0
    /\ main_error = "none"
    /\ page = NoPage

------------------------------------------------------------------------------
(* Calls on the cleaned set *)

FilterArgs ==
    [cities : {NoneList, List({}), List({"Tokyo", "Atlantis"})},
     areas : {NoneList, List({}), List({"Asia", "Oceania"})},
     room_types : {NoneList, List({}), List({"Private Room", "Unknown"})},
     price_range : {NoRange, Range(15, 80), Range(0, 500)},
     min_reviews : {0, 10},
     min_rating : {Num(0), Norm(45, 1)},
     guest_favourites_only : BOOLEAN,
     certified_hosts_only : BOOLEAN]

\* filter_data called with its defaults
NoArgs ==
    [cities |-> NoneList, areas |-> NoneList, room_types |-> NoneList,
     price_range |-> NoRange, min_reviews |-> 0, min_rating |-> Num(0),
     guest_favourites_only |-> FALSE, certified_hosts_only |-> FALSE]

NoRet == [fn |-> "none", frame |-> <<>>, error |-> "none", metrics |-> NoMetrics]

\* no earlier call whose result was filtered again
NoPrev == [fn |-> "none", args |-> NoArgs, frame |-> <<>>]

\* The text of a cell, one character per element.
Txt(s) == Str(s)

BaseRow ==
    ("id" :> Num(1)) @@ ("host_id" :> Num(1)) @@
    ("city" :> "Tokyo") @@ ("area" :> "Asia") @@ ("room_type" :> Num(1)) @@
    ("price" :> Num(80)) @@ ("bathrooms" :> Txt(<<"1", ",", "5">>)) @@
    ("consumer" :> Txt(<<"6", ",", "5">>)) @@
    ("host response rate" :> Txt(<<"0", ",", "9">>)) @@
    ("host acceptance rate" :> Num(1)) @@
    ("sales" :> Num(10)) @@ ("host since" :> Txt(<<"3", "6", "5", ".", "9">>)) @@
    ("host Certification" :> Num(0)) @@ ("guest favourite" :> Num(1)) @@
    ("accommodates" :> Num(2)) @@ ("bedrooms" :> Num(1)) @@ ("beds" :> Num(1)) @@
    ("total reviewers number" :> Num(120))

\* Tokyo filed under the wrong area, a thousands comma in the price
RowTokyo ==
    ("area" :> "Europe") @@ ("price" :> Txt(<<"1", ",", "2", "5", "0">>)) @@ BaseRow

\* a city the tables do not know; most optional cells missing
RowUnknownCity ==
    ("id" :> Num(2)) @@ ("host_id" :> Num(2)) @@
    ("city" :> "Atlantis") @@ ("area" :> "Oceania") @@ ("room_type" :> Num(9)) @@
    ("price" :> Txt(<<"$", "8", "0">>)) @@ ("bathrooms" :> Missing) @@
    ("consumer" :> Missing) @@ ("sales" :> Missing) @@ ("host since" :> Missing) @@
    ("host Certification" :> Num(1)) @@ ("guest favourite" :> Missing) @@
    ("bedrooms" :> Missing) @@ ("beds" :> Missing) @@
    ("total reviewers number" :> Missing) @@ BaseRow

\* Sydney filed under the wrong area; no price, no room type, a zero rating
RowSydney ==
    ("id" :> Num(3)) @@ ("city" :> "Sydney") @@ ("area" :> "Europe") @@
    ("room_type" :> Missing) @@ ("price" :> Missing) @@ ("consumer" :> Num(0)) @@
    ("sales" :> Num(5)) @@ ("host Certification" :> Missing) @@
    ("guest favourite" :> Num(0)) @@ ("bedrooms" :> Txt(<<"x">>)) @@
    ("total reviewers number" :> Num(0)) @@ BaseRow

\* a decimal comma in the price; rating and reviews on the thresholds
RowCheap ==
    ("id" :> Num(4)) @@ ("host_id" :> Num(3)) @@ ("room_type" :> Num(4)) @@
    ("price" :> Txt(<<"1", "5", ",", "0", "0">>)) @@
    ("consumer" :> Txt(<<"4", ".", "5">>)) @@ ("host Certification" :> Num(1)) @@
    ("total reviewers number" :> Num(10)) @@ BaseRow

\* a mapped city with no raw area; a price of zero
RowFree ==
    ("id" :> Num(5)) @@ ("host_id" :> Num(2)) @@
    ("city" :> "Berlin") @@ ("area" :> NaN) @@ ("room_type" :> Num(2)) @@
    ("price" :> Num(0)) @@ ("consumer" :> Txt(<<"0", ",", "0">>)) @@
    ("guest favourite" :> Num(0)) @@ ("total reviewers number" :> Num(10)) @@ BaseRow

\* an unmapped city with no raw area
RowNoArea ==
    ("id" :> Num(6)) @@ ("city" :> "Atlantis") @@ ("area" :> NaN) @@
    ("room_type" :> Num(3)) @@ ("price" :> Num(500)) @@ ("consumer" :> Num(7)) @@ BaseRow

\* an infinite host-since value
RowInfSince == ("id" :> Num(7)) @@ ("host since" :> Inf(1)) @@ BaseRow

\* a listing whose id cell is empty
RowNoId == ("id" :> Missing) @@ ("price" :> Num(20)) @@ BaseRow

RawRows ==
    {RowTokyo, RowUnknownCity, RowSydney, RowCheap, RowFree, RowNoArea, RowInfSince,
     RowNoId}

RawFiles == UNION {[1..n -> RawRows] : n \in 0..MaxRows}

Init ==
    /\ cell = Missing
    /\ call = [fn |-> "none", ret |-> Missing]
    /\ raw \in RawFiles
    /\ pc = "start"
    /\ df = <<>>
    /\ stats = NoStats
    /\ args = NoArgs
    /\ ret = NoRet
    /\ prev = NoPrev
    /\ NoSession

\* load_and_clean_data(filepath) on a file that exists
Load ==
    /\ pc = "start"
    /\ \E r \in {load_and_clean_data(raw)} :
          /\ pc' = IF r.ok THEN "idle" ELSE "failed"
          /\ df' = r.df
          /\ stats' = r.stats
          /\ ret' = [NoRet EXCEPT !.fn = "load_and_clean_data", !.error = r.error]
    /\ UNCHANGED <<prev, cell, call, raw, args, svars>>

\* filtered = filter_data(df, ...)
CallFilterData ==
    /\ pc = "idle"
    /\ \E a \in FilterArgs :
          /\ args' = a
          /\ ret' = [NoRet EXCEPT !.fn = "filter_data", !.frame = filter_data(df, a)]
          /\ df' = FrameAfterFilter(df, a)
    /\ pc' = "returned"
    /\ UNCHANGED <<prev, cell, call, raw, stats, svars>>

\* metrics = calculate_guest_metrics(df)
CallGuestMetrics ==
    /\ pc = "idle"
    /\ \E m \in calculate_guest_metrics(df) :
          ret' = [NoRet EXCEPT !.fn = "calculate_guest_metrics",
                               !.error = m.error, !.metrics = m]
    /\ df' = FrameAfterMetrics(df)
    /\ pc' = "returned"
    /\ UNCHANGED <<prev, cell, call, raw, stats, args, svars>>

\* metrics = calculate_host_metrics(df)
CallHostMetrics ==
    /\ pc = "idle"
    /\ \E m \in calculate_host_metrics(df) :
          ret' = [NoRet EXCEPT !.fn = "calculate_host_metrics",
                               !.error = m.error, !.metrics = m]
    /\ df' = FrameAfterMetrics(df)
    /\ pc' = "returned"
    /\ UNCHANGED <<prev, cell, call, raw, stats, args, svars>>

\* city_stats = get_city_stats(df)
CallCityStats ==
    /\ pc = "idle"
    /\ ret' = [NoRet EXCEPT !.fn = "get_city_stats", !.frame = get_city_stats(df)]
    /\ df' = FrameAfterMetrics(df)
    /\ pc' = "returned"
    /\ UNCHANGED <<prev, cell, call, raw, stats, args, svars>>

\* area_stats = get_area_stats(df)
CallAreaStats ==
    /\ pc = "idle"
    /\ ret' = [NoRet EXCEPT !.fn = "get_area_stats", !.frame = get_area_stats(df)]
    /\ df' = FrameAfterMetrics(df)
    /\ pc' = "returned"
    /\ UNCHANGED <<prev, cell, call, raw, stats, args, svars>>

\* the caller is done with the result; the cleaned set stays loaded
Return ==
    /\ pc = "returned"
    /\ pc' = "idle"
    /\ args' = NoArgs
    /\ ret' = NoRet
    /\ UNCHANGED <<prev, cell, call, raw, df, stats, svars>>

Next ==
    \/ Load
    \/ CallFilterData
    \/ CallGuestMetrics
    \/ CallHostMetrics
    \/ CallCityStats
    \/ CallAreaStats
    \/ Return

Spec == Init /\ [][Next]_vars

------------------------------------------------------------------------------
(* filter_data called on the result of filter_data *)

\* Three files of three rows and the file without a row.
ChainFiles ==
    {<<>>,
     <<RowTokyo, RowUnknownCity, RowCheap>>,
     <<RowSydney, RowFree, RowNoId>>,
     <<RowCheap, RowSydney, RowTokyo>>}

\* The parameters whose predicate the body applies: the `if` of each step.
Applied(a) ==
    {p \in {"cities"} : ListGiven(a.cities)} \cup
    {p \in {"areas"} : ListGiven(a.areas)} \cup
    {p \in {"room_types"} : ListGiven(a.room_types)} \cup
    {p \in {"price_range"} : RangeGiven(a.price_range)} \cup
    {p \in {"min_reviews"} : a.min_reviews > 0} \cup
    {p \in {"min_rating"} : GE(a.min_rating, Num(0)) /\ a.min_rating # Num(0)} \cup
    {p \in {"guest_favourites_only"} : a.guest_favourites_only} \cup
    {p \in {"certified_hosts_only"} : a.certified_hosts_only}

\* The arguments of a second call: one or two predicates, the other
\* parameters left at their defaults.
SecondArgs ==
    {a \in FilterArgs :
        /\ Cardinality(Applied(a)) \in 1..2
        /\ List({}) \notin {a.cities, a.areas, a.room_types}}

ChainInit ==
    /\ cell = Missing
    /\ call = [fn |-> "none", ret |-> Missing]
    /\ raw \in ChainFiles
    /\ pc = "start"
    /\ df = <<>>
    /\ stats = NoStats
    /\ args = NoArgs
    /\ ret = NoRet
    /\ prev = NoPrev
    /\ NoSession

\* filtered = filter_data(filtered, ...): the result of the last call is
\* filtered again, with predicates on other parameters or with the same
\* arguments
CallFilterDataOnResult ==
    /\ pc = "returned"
    /\ ret.fn = "filter_data"
    /\ prev = NoPrev
    /\ \E a \in SecondArgs \cup {args} :
          /\ a = args \/ Applied(a) \cap Applied(args) = {}
          /\ prev' = [fn |-> "filter_data", args |-> args, frame |-> ret.frame]
          /\ args' = a
          /\ ret' = [NoRet EXCEPT !.fn = "filter_data",
                                  !.frame = filter_data(ret.frame, a)]
    /\ UNCHANGED <<cell, call, raw, pc, df, stats, svars>>

ChainNext ==
    \/ Load
    \/ CallFilterData
    \/ CallFilterDataOnResult

ChainSpec == ChainInit /\ [][ChainNext]_vars

------------------------------------------------------------------------------
(* The parsers applied to one raw cell *)

NumericCells ==
    {Num(0), Num(1), Num(-1), Num(15), Norm(15, 1), Norm(-27, 1), Inf(1), Inf(-1)}

\* The price, rating and host-since texts of the documentation, and a price
\* with two commas.
ExampleTexts ==
    {<<"1", ",", "2", "5", "0">>, <<"4", "5", ",", "0", "0">>, <<"$", "9", "9">>,
     <<"6", ",", "8", "1">>, <<"0", ",", "9">>, <<"3", "6", "5", ".", "9">>,
     <<"-", "2", ".", "7">>, <<"1", ",", "2", "3", "4", ",", "5", "6">>,
     <<"1", ",", "2", "3", "4", ",", "5", "6", "7">>}

RawCells ==
    {Missing} \cup NumericCells \cup {Str(s) : s \in Texts \cup ExampleTexts}

NoCall == [fn |-> "none", ret |-> Missing]

ParseInit ==
    /\ cell \in RawCells
    /\ call = NoCall
    /\ raw = <<>>
    /\ pc = "start"
    /\ df = <<>>
    /\ stats = NoStats
    /\ args = NoArgs
    /\ ret = NoRet
    /\ prev = NoPrev
    /\ NoSession

CallCleanPrice ==
    /\ call = NoCall
    /\ call' = [fn |-> "clean_price", ret |-> clean_price(cell)]
    /\ UNCHANGED <<prev, cell, dvars, svars>>

CallConvertEuropeanDecimal ==
    /\ call = NoCall
    /\ call' = [fn |-> "convert_european_decimal", ret |-> convert_european_decimal(cell)]
    /\ UNCHANGED <<prev, cell, dvars, svars>>

CallCleanHostSince ==
    /\ call = NoCall
    /\ call' = [fn |-> "clean_host_since", ret |-> clean_host_since(cell)]
    /\ UNCHANGED <<prev, cell, dvars, svars>>

\* the parser a column is cleaned with: Series.apply(fn)
Apply(fn, value) ==
    CASE fn = "clean_price" -> clean_price(value)
      [] fn = "convert_european_decimal" -> convert_european_decimal(value)
      [] fn = "clean_host_since" -> clean_host_since(value)

\* The value a parser returned is given to the same parser again, as when a
\* cleaned column is cleaned a second time.
ApplyAgain ==
    /\ call # NoCall
    /\ call.ret.t # "raise"
    /\ cell' = call.ret
    /\ call' = [fn |-> call.fn, ret |-> Apply(call.fn, call.ret)]
    /\ UNCHANGED <<prev, dvars, svars>>

ParseNext ==
    \/ CallCleanPrice
    \/ CallConvertEuropeanDecimal
    \/ CallCleanHostSince
    \/ ApplyAgain

ParseSpec == ParseInit /\ [][ParseNext]_vars

------------------------------------------------------------------------------
(* The runs of main in one dashboard session *)

\* Most runs of main in one session.
MaxRuns == 2

\* The disk: what is at the two paths, and the rows of the file that is read.
Disk(primary, fallback, rows) ==
    [primary |-> primary, fallback |-> fallback, rows |-> rows]

Disks ==
    {Disk("present", "absent", <<RowTokyo, RowUnknownCity>>),
     Disk("absent", "present", <<RowCheap, RowTokyo>>),
     Disk("present", "present", <<RowUnknownCity>>),
     Disk("absent", "absent", <<>>),
     Disk("absent", "unreadable", <<>>),
     Disk("unreadable", "present", <<RowCheap>>),
     Disk("present", "absent", <<RowInfSince>>),
     Disk("present", "absent", <<RowNoArea, RowTokyo>>),
     Disk("present", "absent", <<RowSydney>>),
     Disk("present", "absent", <<RowUnknownCity, RowSydney>>),
     Disk("present", "present", <<>>)}

\* x or default: NaN is truthy, 0.0 is not
Or(x, default) == IF x = Num(0) THEN default ELSE x

\* int(x) for a float that may be NaN
IntOrRaise(x) == IF isna(x) THEN Raise("ValueError") ELSE TruncInt(x)

\* int(data_stats['price_range']['max'] or 1000)
SliderMax(statistics) == IntOrRaise(Or(statistics.price_range.max, Num(1000)))

\* min(500, int(data_stats['price_range']['max'] or 500))
DefaultHigh(statistics) ==
    IF IntOrRaise(Or(statistics.price_range.max, Num(500))).m < 500
    THEN IntOrRaise(Or(statistics.price_range.max, Num(500))).m
    ELSE 500

Options(list) == {list[k] : k \in 1..Len(list)}

\* What the widgets of the sidebar can hold: the multiselects start with
\* every option and can be emptied, the price slider starts at
\* (0, min(500, max)), the other widgets at 0 and unchecked.
WidgetValues(statistics) ==
    [cities : {List(Options(statistics.unique_cities)), List({})},
     areas : {List(Options(statistics.unique_areas))},
     room_types : {List(Options(statistics.unique_room_types))},
     price_range : {Range(0, DefaultHigh(statistics)), Range(0, 10)},
     min_reviews : {0, 500},
     min_rating : {Num(0), Norm(45, 1)},
     guest_favourites_only : BOOLEAN,
     certified_hosts_only : {FALSE}]

DashInit ==
    /\ cell = Missing
    /\ call = NoCall
    /\ \E d \in Disks :
          /\ files = [primary |-> d.primary, fallback |-> d.fallback]
          /\ raw = d.rows
    /\ pc = "start"
    /\ df = <<>>
    /\ stats = NoStats
    /\ args = NoArgs
    /\ ret = NoRet
    /\ prev = NoPrev
    /\ cache = NoEntry
    /\ loads = 0
    /\ runs = 0
    /\ main_error = "none"
    /\ page = NoPage

\* A run of main starts: df, data_stats, error = load_data()
RunLoadData ==
    /\ pc \in {"start", "stopped"}
    /\ runs < MaxRuns
    /\ \E r \in {cache_data(cache, files, raw)} :
          /\ cache' = r.entry
          /\ loads' = loads + r.executed
          /\ df' = r.value.df
          /\ stats' = r.value.stats
          /\ main_error' = r.value.error
    /\ runs' = runs + 1
    /\ page' = NoPage
    /\ args' = NoArgs
    /\ ret' = NoRet
    /\ pc' = "loaded"
    /\ UNCHANGED <<prev, cell, call, raw, files>>

\* `if error:` and `if df is None or len(df) == 0:`: st.error and return
RunShowError ==
    /\ pc = "loaded"
    /\ Truthy(main_error) \/ Len(df) = 0
    /\ page' = [NoPage EXCEPT !.elements = {"error"}]
    /\ pc' = "stopped"
    /\ UNCHANGED <<prev, cell, call, raw, df, stats, args, ret, files, cache, loads, runs,
                   main_error>>

\* The price slider cannot be built: int() of a NaN or infinite maximum
\* raises, and the run ends with the exception on the page.
RunSidebarRaises ==
    /\ pc = "loaded"
    /\ ~Truthy(main_error) /\ Len(df) > 0
    /\ SliderMax(stats).t = "raise"
    /\ page' = [NoPage EXCEPT !.elements = {"exception"}]
    /\ pc' = "stopped"
    /\ UNCHANGED <<prev, cell, call, raw, df, stats, args, ret, files, cache, loads, runs,
                   main_error>>

\* The sidebar: the widgets, filter_data on their values, the summary and
\* the download button.
RunSidebar ==
    /\ pc = "loaded"
    /\ ~Truthy(main_error) /\ Len(df) > 0
    /\ SliderMax(stats).t # "raise"
    /\ \E a \in WidgetValues(stats) :
          /\ args' = a
          /\ ret' = [NoRet EXCEPT !.fn = "filter_data", !.frame = filter_data(df, a)]
          /\ df' = FrameAfterFilter(df, a)
          /\ page' = SidebarPage(filter_data(df, a))
    /\ pc' = "filtered"
    /\ UNCHANGED <<prev, cell, call, raw, stats, files, cache, loads, runs, main_error>>

\* `if len(filtered_df) == 0:`: st.warning and return
RunEmptyWarning ==
    /\ pc = "filtered"
    /\ Empty(ret.frame)
    /\ page' = [page EXCEPT !.elements = @ \cup {"warning"}]
    /\ pc' = "stopped"
    /\ UNCHANGED <<prev, cell, call, raw, df, stats, args, ret, files, cache, loads, runs,
                   main_error>>

\* The two tabs: the guest and host metrics of the filtered set and the
\* charts drawn from it.
RunTabs ==
    /\ pc = "filtered"
    /\ ~Empty(ret.frame)
    /\ \E guest \in calculate_guest_metrics(ret.frame),
          host \in calculate_host_metrics(ret.frame) :
          page' = [page EXCEPT !.elements = @ \cup TabElements(guest, host)]
    /\ pc' = "stopped"
    /\ UNCHANGED <<prev, cell, call, raw, df, stats, args, ret, files, cache, loads, runs,
                   main_error>>

\* Between two runs the files at the two paths are replaced.
ReplaceFile ==
    /\ pc = "stopped"
    /\ \E d \in Disks :
          /\ files' = [primary |-> d.primary, fallback |-> d.fallback]
          /\ raw' = d.rows
          /\ <<files', raw'>> # <<files, raw>>
    /\ UNCHANGED <<prev, cell, call, pc, df, stats, args, ret, cache, loads, runs,
                   main_error, page>>

DashNext ==
    \/ RunLoadData
    \/ RunShowError
    \/ RunSidebarRaises
    \/ RunSidebar
    \/ RunEmptyWarning
    \/ RunTabs
    \/ ReplaceFile

DashSpec == DashInit /\ [][DashNext]_vars

------------------------------------------------------------------------------
(* Properties of the filter engine *)

Loaded == pc \in {"idle", "returned"}

Filtered == pc = "returned" /\ ret.fn = "filter_data"

\* the record is in the result of the last call
InResult(row) == \E j \in 1..Len(ret.frame) : ret.frame[j] = row

\* a list predicate is supplied when it is a list with at least one item
Supplied(l) == l.given /\ l.items # {}

Positive(x) == x.t = "num" /\ x.m > 0

Within(x, lo, hi) ==
    /\ x.t = "num" /\ lo.t = "num" /\ hi.t = "num"
    /\ lo.m * Pow10(x.e) <= x.m * Pow10(lo.e)
    /\ x.m * Pow10(hi.e) <= hi.m * Pow10(x.e)

AtLeast(x, y) == Within(y, y, x)

\* the record passes every predicate the arguments supply
PassesAll(row, a) ==
    /\ Supplied(a.cities) => row["city"] \in a.cities.items
    /\ Supplied(a.areas) => row["area"] \in a.areas.items
    /\ Supplied(a.room_types) => row["room_type_decoded"] \in a.room_types.items
    /\ a.price_range.given =>
          Within(row["price_clean"], a.price_range.lo, a.price_range.hi)
    /\ a.min_reviews > 0 => AtLeast(row["total reviewers number"], Num(a.min_reviews))
    /\ Positive(a.min_rating) => AtLeast(row["consumer_clean"], a.min_rating)
    /\ a.guest_favourites_only => row["guest_favourite"]
    /\ a.certified_hosts_only => row["host_certified"]

\* C1: the result of filter_data holds exactly the records of the input that
\* pass every supplied predicate at once: a record of the cleaned set is in
\* the result if and only if it passes all of them.
C1_FilterIsConjunction ==
    Filtered => \A i \in 1..Len(df) : InResult(df[i]) <=> PassesAll(df[i], args)

\* a call with four predicates supplied that keeps one record and drops one
C1_Witness ==
    /\ Filtered
    /\ Supplied(args.cities) /\ args.price_range.given
    /\ args.min_reviews > 0 /\ Positive(args.min_rating)
    /\ Len(df) = 2 /\ Len(ret.frame) = 1

\* no predicate supplied: lists None or empty, no range, thresholds 0, flags off
NothingSupplied(a) ==
    /\ a.cities \in {NoneList, List({})}
    /\ a.areas \in {NoneList, List({})}
    /\ a.room_types \in {NoneList, List({})}
    /\ a.price_range = NoRange
    /\ a.min_reviews = 0 /\ a.min_rating = Num(0)
    /\ ~a.guest_favourites_only /\ ~a.certified_hosts_only

\* C2: with every predicate omitted or empty, filter_data returns the same
\* records, in the same order and with the same contents, as its input.
C2_OmittedPredicatesKeepAll ==
    (Filtered /\ NothingSupplied(args)) => ret.frame = df

\* empty lists and None together, on a set that has records (one of them
\* without a price, a rating or a review count)
C2_Witness ==
    /\ Filtered /\ NothingSupplied(args)
    /\ args.cities = List({}) /\ args.areas = NoneList /\ args.room_types = List({})
    /\ Len(df) = 2 /\ ret.frame = df
    /\ \E i \in 1..Len(df) : isna(df[i]["price_clean"])

OnlyPriceRange(a) ==
    /\ a.price_range.given
    /\ NothingSupplied([a EXCEPT !.price_range = NoRange])

\* C3: with price_range = (lo, hi) and no other predicate, every record of
\* the result has lo <= price_clean <= hi and every input record whose
\* price_clean is lo or hi is in the result.
C3_PriceRangeInclusive ==
    (Filtered /\ OnlyPriceRange(args)) =>
        /\ \A j \in 1..Len(ret.frame) :
              Within(ret.frame[j]["price_clean"], args.price_range.lo, args.price_range.hi)
        /\ \A i \in 1..Len(df) :
              df[i]["price_clean"] \in {args.price_range.lo, args.price_range.hi}
                  => InResult(df[i])

\* a record priced at the lower bound and one at the upper bound, both kept
C3_Witness ==
    /\ Filtered /\ OnlyPriceRange(args)
    /\ \E i, j \in 1..Len(ret.frame) :
          /\ ret.frame[i]["price_clean"] = args.price_range.lo
          /\ ret.frame[j]["price_clean"] = args.price_range.hi
          /\ args.price_range.lo # args.price_range.hi

\* r is d with some records removed: an order-preserving, one-to-one
\* embedding of r in d
IsSubsequence(r, d) ==
    \E f \in [1..Len(r) -> 1..Len(d)] :
        /\ \A i, j \in 1..Len(r) : i < j => f[i] < f[j]
        /\ \A i \in 1..Len(r) : r[i] = d[f[i]]

\* C4: the result of filter_data is a subsequence of its input: no record
\* twice, none from elsewhere, the survivors in input order.
C4_ResultIsSubsequence == Filtered => IsSubsequence(ret.frame, df)

\* a filtering call with city and area lists that keeps two records
C4_Witness ==
    /\ Filtered /\ Supplied(args.cities) /\ Supplied(args.areas)
    /\ Len(ret.frame) = 2

\* C5: the cleaned set is immutable after loading: no call of filter_data,
\* calculate_guest_metrics, calculate_host_metrics, get_city_stats or
\* get_area_stats changes its records or their fields.
C5_CleanedSetImmutable == [][Loaded => df' = df]_vars

\* a filtering call that dropped a record the cleaned set still holds
C5_Witness ==
    /\ Filtered
    /\ Len(df) = 2 /\ Len(ret.frame) = 1
    /\ df = Cleaned(read_csv(raw))

\* the last call filtered the result of an earlier filter_data call
Chained == pc = "returned" /\ prev.fn = "filter_data"

\* the arguments that supply the predicates of both p and q, which apply
\* predicates on different parameters
Both(p, q) ==
    [cities |-> IF ListGiven(p.cities) THEN p.cities ELSE q.cities,
     areas |-> IF ListGiven(p.areas) THEN p.areas ELSE q.areas,
     room_types |-> IF ListGiven(p.room_types) THEN p.room_types ELSE q.room_types,
     price_range |-> IF RangeGiven(p.price_range) THEN p.price_range
                     ELSE q.price_range,
     min_reviews |-> IF p.min_reviews > 0 THEN p.min_reviews ELSE q.min_reviews,
     min_rating |-> IF Positive(p.min_rating) THEN p.min_rating ELSE q.min_rating,
     guest_favourites_only |-> p.guest_favourites_only \/ q.guest_favourites_only,
     certified_hosts_only |-> p.certified_hosts_only \/ q.certified_hosts_only]

\* C25: filter_data composes and is idempotent.  With P the arguments of a
\* first call on df and Q those of a call on its result, P and Q applying
\* predicates on different parameters, the second result is
\* filter_data(df, P and Q) and is filter_data(filter_data(df, Q), P);
\* filtering a result again with the same arguments returns it unchanged;
\* the set filtered with the added predicates holds no record that the set
\* filtered with P alone does not hold.
C25_FilterComposes ==
    Chained =>
        /\ Applied(args) \cap Applied(prev.args) = {} =>
              /\ ret.frame = filter_data(df, Both(prev.args, args))
              /\ ret.frame = filter_data(filter_data(df, args), prev.args)
              /\ IsSubsequence(filter_data(df, Both(prev.args, args)), prev.frame)
        /\ args = prev.args => ret.frame = prev.frame
        /\ \A i \in 1..Len(df) :
              InResult(df[i]) <=> (PassesAll(df[i], prev.args) /\ PassesAll(df[i], args))

\* favourites first and a price range second: the first call keeps two of
\* three records, the second call one of them
C25_Witness ==
    /\ Chained
    /\ Applied(prev.args) # {} /\ Applied(args) # {}
    /\ Applied(args) \cap Applied(prev.args) = {}
    /\ Len(df) = 3 /\ Len(prev.frame) = 2 /\ Len(ret.frame) = 1
    /\ ret.frame[1] # prev.frame[1]

------------------------------------------------------------------------------
(* Properties of the loader *)

\* C6: after loading, a record whose city is a key of CORRECT_CITY_AREA has
\* the table's area whatever the raw area was, and a record whose city is not
\* in the table keeps its raw area.
C6_AreaCorrected ==
    Loaded =>
        /\ Len(df) = Len(raw)
        /\ \A i \in 1..Len(df) :
              IF raw[i]["city"] \in
                    {"Toronto", "NewYork", "Amsterdam", "Berlin", "Dublin", "Munich",
                     "Hongkong", "Singapore", "Sydney", "Tokyo"}
              THEN df[i]["area"] = CORRECT_CITY_AREA[raw[i]["city"]]
              ELSE df[i]["area"] = raw[i]["area"]

\* a mapped city whose raw area was wrong, next to an unmapped city
C6_Witness ==
    /\ Loaded
    /\ \E i, j \in 1..Len(df) :
          /\ raw[i]["city"] = "Tokyo" /\ raw[i]["area"] = "Europe"
          /\ df[i]["area"] = "Asia"
          /\ raw[j]["city"] = "Atlantis" /\ df[j]["area"] = "Oceania"

\* the label the claim gives a raw room type code
LabelOf(code) ==
    CASE code = Num(1) -> "Private Room"
      [] code = Num(2) -> "Entire Home/Apt"
      [] code = Num(3) -> "Shared Room"
      [] code = Num(4) -> "Hotel Room"
      [] OTHER -> "Unknown"

\* C7: after loading, room_type_decoded is never missing: the codes 1 to 4
\* give their label, every other code and a missing code give 'Unknown'.
C7_RoomTypeDecoded ==
    Loaded =>
        \A i \in 1..Len(df) :
            /\ df[i]["room_type_decoded"] # NaN
            /\ df[i]["room_type_decoded"] = LabelOf(raw[i]["room_type"])

\* a missing code and an unmapped code next to a mapped one
C7_Witness ==
    /\ Loaded
    /\ \E i, j \in 1..Len(df) :
          /\ raw[i]["room_type"] \in {Missing, Num(9)}
          /\ df[i]["room_type_decoded"] = "Unknown"
          /\ raw[j]["room_type"] = Num(4)
          /\ df[j]["room_type_decoded"] = "Hotel Room"

\* the place of a label in ascending order
Rank(label) == CHOOSE k \in 1..Len(LabelOrder) : LabelOrder[k] = label

\* list is the ascending list, without duplicates, of the values of the set
SortedListOf(list, values) ==
    /\ {list[k] : k \in 1..Len(list)} = values
    /\ \A j, k \in 1..Len(list) : j < k => Rank(list[j]) < Rank(list[k])

\* C19: the statistics are computed after area correction: unique_areas is
\* the ascending list, without duplicates, of exactly the corrected areas of
\* the cleaned records, areas is its length, and unique_cities and
\* unique_room_types are likewise the sorted distinct cities and decoded room
\* types; for every file that loads.
C19_StatsAfterCorrection ==
    Loaded =>
        /\ SortedListOf(stats.unique_areas, {CorrectArea(raw[i]) : i \in 1..Len(raw)})
        /\ SortedListOf(stats.unique_areas, Column(df, "area"))
        /\ stats.areas = Len(stats.unique_areas)
        /\ SortedListOf(stats.unique_cities, Column(df, "city"))
        /\ SortedListOf(stats.unique_room_types, Column(df, "room_type_decoded"))

\* z is the product of the numbers x and y
IsProduct(z, x, y) ==
    /\ z.t = "num" /\ x.t = "num" /\ y.t = "num"
    /\ z.m * Pow10(x.e + y.e) = x.m * y.m * Pow10(z.e)

\* C20: after loading every record has revenue_estimate equal to its
\* price_clean times its raw sales, missing exactly when price_clean or the
\* raw sales is missing; the fallback fills and the coercion of sales leave
\* the value computed before them unchanged.
C20_RevenueEstimate ==
    Loaded =>
        \A i \in 1..Len(df) :
            /\ isna(df[i]["revenue_estimate"])
                  <=> (isna(df[i]["price_clean"]) \/ isna(raw[i]["sales"]))
            /\ ~isna(df[i]["revenue_estimate"]) =>
                  IsProduct(df[i]["revenue_estimate"], df[i]["price_clean"],
                            raw[i]["sales"])
            /\ df[i]["revenue_estimate"] = Derive(read_csv(raw)[i])["revenue_estimate"]

\* 1250 times 10 next to a record with a price and no sales, whose missing
\* bedrooms and beds were filled
C20_Witness ==
    /\ Loaded
    /\ \E i, j \in 1..Len(df) :
          /\ df[i]["price_clean"] = Num(1250) /\ raw[i]["sales"] = Num(10)
          /\ df[i]["revenue_estimate"] = Num(12500)
          /\ df[j]["price_clean"] = Num(80) /\ isna(raw[j]["sales"])
          /\ isna(raw[j]["bedrooms"]) /\ df[j]["bedrooms"] = Num(0)
          /\ isna(df[j]["revenue_estimate"])

\* raw columns that no cleaning step assigns
RawKept == {"id", "host_id", "city", "price", "room_type"}

\* C24: cleaning neither drops nor adds records: for every file that loads
\* the cleaned set has one record per input row, in input order, and
\* stats['total_listings'] equals stats['original_count'], the number of
\* rows read.
C24_NoRecordDroppedOrAdded ==
    pc = "idle" =>
        /\ Len(df) = Len(raw)
        /\ \A i \in 1..Len(df) :
              /\ df[i]["index"] = i - 1
              /\ \A col \in RawKept : df[i][col] = raw[i][col]
        /\ stats.original_count = Len(raw)
        /\ stats.total_listings = Len(df)
        /\ stats.total_listings = stats.original_count

\* two different rows, the first without a price: both are in the cleaned
\* set, in the order of the file
C24_Witness ==
    /\ pc = "idle"
    /\ Len(raw) = 2 /\ Len(df) = 2
    /\ raw[1]["id"] # raw[2]["id"]
    /\ isna(df[1]["price_clean"]) /\ ~isna(df[2]["price_clean"])
    /\ stats.total_listings = 2 /\ stats.original_count = 2

\* the columns the fallback fill assigns
FilledColumns == {"bedrooms", "bathrooms_clean", "beds"}

\* the value the fill puts in a missing cell of the column
FillValue(col) == IF col = "bedrooms" THEN Num(0) ELSE Num(1)

\* the record of row i as it stands when the fill starts: after the derived
\* columns and the numeric coercion
BeforeFill(i) == Coerce(Derive(read_csv(raw)[i]))

\* after is before with its missing bedrooms, bathrooms_clean and beds filled
\* and nothing else changed
FilledFrom(before, after) ==
    /\ \A col \in FilledColumns :
          /\ ~isna(after[col])
          /\ isna(before[col]) => after[col] = FillValue(col)
          /\ ~isna(before[col]) => after[col] = before[col]
    /\ DOMAIN after = DOMAIN before
    /\ \A col \in DOMAIN after \ FilledColumns : after[col] = before[col]

\* C21: the fallback fill is the last cleaning step: after loading no record
\* has a missing bedrooms, bathrooms_clean or beds; a record whose value was
\* missing before the fill has bedrooms 0, bathrooms_clean 1, beds 1; a value
\* present before the fill is kept; no other field is changed by the fill.
C21_FillIsLast ==
    pc = "idle" =>
        \A i \in 1..Len(df) : FilledFrom(BeforeFill(i), df[i])

\* a record with the three raw cells missing, filled with 0, 1 and 1, next to
\* a record whose bedrooms text became missing in the coercion and whose
\* bathrooms and beds were present
C21_Witness ==
    /\ pc = "idle"
    /\ \E i, j \in 1..Len(df) :
          /\ isna(raw[i]["bedrooms"]) /\ isna(raw[i]["bathrooms"])
          /\ isna(raw[i]["beds"])
          /\ df[i]["bedrooms"] = Num(0) /\ df[i]["bathrooms_clean"] = Num(1)
          /\ df[i]["beds"] = Num(1)
          /\ raw[j]["bedrooms"].t = "str" /\ isna(BeforeFill(j)["bedrooms"])
          /\ df[j]["bedrooms"] = Num(0)
          /\ df[j]["bathrooms_clean"] = Norm(15, 1) /\ df[j]["beds"] = Num(1)

------------------------------------------------------------------------------
(* Properties of the field parsers *)

Called(fn) == call.fn = fn

\* the price text once whitespace, currency symbols and spaces are gone
PriceText(s) == SelectSeq(s, LAMBDA c : c \notin {"$", "EUR", "GBP", " "})

CommaAt(c) == {i \in 1..Len(c) : c[i] = ","}

LastComma(c) == CHOOSE i \in CommaAt(c) : \A j \in CommaAt(c) : j <= i

BeforeLastComma(c) == SubSeq(c, 1, LastComma(c) - 1)

AfterLastComma(c) == SubSeq(c, LastComma(c) + 1, Len(c))

WithoutCommas(c) == SelectSeq(c, LAMBDA x : x # ",")

AllDigits(c) == \A i \in 1..Len(c) : c[i] \in Digits

Negative(c) == c # <<>> /\ c[1] = "-"

Unsign(c) == IF Negative(c) THEN SubSeq(c, 2, Len(c)) ELSE c

\* the number with the digits ds, the last k of them decimals, negated if neg
Decimal(ds, k, neg) == Norm(IF neg THEN -DigitsVal(ds) ELSE DigitsVal(ds), k)

\* a price text the comma rule decides: a comma and no period
CommaCase ==
    /\ Called("clean_price") /\ cell.t = "str"
    /\ CommaAt(PriceText(cell.s)) # {}
    /\ \A i \in 1..Len(cell.s) : cell.s[i] # "."

\* digits in groups separated by single commas, starting with a digit
WellGrouped(c) ==
    /\ AllDigits(WithoutCommas(c))
    /\ c[1] # ","
    /\ \A i \in CommaAt(c) : i + 1 \notin CommaAt(c)

\* C8 as stated: two characters after the last comma make that comma the
\* decimal point and the result is that decimal number; any other count makes
\* the commas thousands separators and the result is the number without them.
C8_LastCommaDecides ==
    (CommaCase /\ WellGrouped(PriceText(cell.s))) =>
        LET c == PriceText(cell.s)
        IN IF Len(AfterLastComma(c)) = 2
           THEN call.ret = Decimal(WithoutCommas(c), 2, FALSE)
           ELSE call.ret = Decimal(WithoutCommas(c), 0, FALSE)

\* C8 (amended): with two characters after the last comma every comma is read
\* as a decimal point, so a text with one comma gives that decimal number and
\* a text with more than one comma gives the missing sentinel; with any other
\* count the commas are dropped and the result is the number that is left;
\* in both cases a text that is then no number gives the missing sentinel.
C8_CommaRule ==
    CommaCase =>
        LET c == PriceText(cell.s)
            point == WithoutCommas(Unsign(c))     \* the comma as decimal point
            thousands == Unsign(WithoutCommas(c)) \* the commas dropped
        IN IF Len(AfterLastComma(c)) = 2
           THEN IF Cardinality(CommaAt(c)) = 1 /\ AllDigits(point)
                THEN call.ret = Decimal(point, 2, Negative(c))
                ELSE call.ret = Missing
           ELSE IF AllDigits(thousands) /\ thousands # <<>>
                THEN call.ret = Decimal(thousands, 0, Negative(WithoutCommas(c)))
                ELSE call.ret = Missing

\* "45,00" read as 45.0
C8_Witness ==
    /\ CommaCase
    /\ cell.s = <<"4", "5", ",", "0", "0">>
    /\ call.ret = Num(45)

\* C9: no field parser raises: each returns a number or the missing sentinel
\* for every raw cell (missing, empty, text, finite or infinite number).
C9_ParsersNeverRaise ==
    ~Called("none") => call.ret.t \in {"num", "inf", "nan"}

\* the text with each comma turned into a period
CommasToPeriods(s) == [i \in 1..Len(s) |-> IF s[i] = "," THEN "." ELSE s[i]]

\* the text without the spaces around it
Trimmed(s) ==
    LET solid == {i \in 1..Len(s) : s[i] # " "}
    IN IF solid = {} THEN <<>>
       ELSE SubSeq(s, CHOOSE i \in solid : \A j \in solid : i <= j,
                      CHOOSE i \in solid : \A j \in solid : j <= i)

\* the float a text without letters denotes, Missing if it denotes none
FloatOf(s) ==
    LET body == Unsign(s)
        dots == {i \in 1..Len(body) : body[i] = "."}
        ds == SelectSeq(body, LAMBDA x : x # ".")
    IN IF Cardinality(dots) <= 1 /\ AllDigits(ds) /\ ds # <<>>
       THEN Decimal(ds, IF dots = {} THEN 0 ELSE Len(body) - (CHOOSE i \in dots : TRUE),
                    Negative(s))
       ELSE Missing

\* C10: convert_european_decimal gives the missing sentinel for a missing
\* value, the empty string and a zero; gives any other number unchanged; and
\* for a text gives the float of the text with the surrounding whitespace
\* stripped and each comma replaced by a period.
C10_EuropeanDecimal ==
    Called("convert_european_decimal") =>
        /\ (cell.t = "nan" \/ cell = Str(<<>>) \/ (cell.t = "num" /\ cell.m = 0))
              => call.ret = Missing
        /\ ((cell.t = "num" /\ cell.m # 0) \/ cell.t = "inf") => call.ret = cell
        /\ (cell.t = "str" /\ cell.s # <<>>)
              => call.ret = FloatOf(CommasToPeriods(Trimmed(cell.s)))

\* "6,81" read as 6.81
C10_Witness ==
    /\ Called("convert_european_decimal")
    /\ cell = Str(<<"6", ",", "8", "1">>)
    /\ call.ret = Norm(681, 2)

\* the text denotes zero once stripped and its commas read as periods
ZeroText(s) == FloatOf(CommasToPeriods(Trimmed(s))) = Num(0)

\* C27: convert_european_decimal treats zero differently by representation:
\* the number 0 (0 or 0.0) gives the missing sentinel, a text that parses to
\* zero ("0", "0,0", "0.0") gives 0.0; so a cleaned locale-decimal field can
\* hold 0.0, from a text, and never from a numeric zero.
C27_ZeroByRepresentation ==
    Called("convert_european_decimal") =>
        /\ cell = Num(0) => call.ret = Missing
        /\ (cell.t = "str" /\ ZeroText(cell.s)) => call.ret = Num(0)
        /\ call.ret = Num(0) => (cell.t = "str" /\ ZeroText(cell.s))

\* "0,0" read as 0.0
C27_Witness ==
    /\ Called("convert_european_decimal")
    /\ cell = Str(<<"0", ",", "0">>)
    /\ call.ret = Num(0)

\* C11: the parsers are idempotent on clean input: when the value a parser
\* returned is given to the same parser again, the parser returns that value.
C11_ParsersIdempotent ==
    [][(call.fn # "none" /\ call'.fn = call.fn) => call'.ret = call.ret]_vars

\* n is the number x cut to an integer toward zero
IsTruncationOf(n, x) ==
    IF x.m >= 0
    THEN n >= 0 /\ n * Pow10(x.e) <= x.m /\ x.m < (n + 1) * Pow10(x.e)
    ELSE n <= 0 /\ (n - 1) * Pow10(x.e) < x.m /\ x.m <= n * Pow10(x.e)

\* the finite number a raw host-since cell holds, Missing if it holds none
HostSinceNumber(c) ==
    IF c.t = "num" THEN c
    ELSE IF c.t = "str" THEN FloatOf(Trimmed(c.s))
    ELSE Missing

------------------------------------------------------------------------------
(* Properties of the metric engine *)

Returned(fn) == pc = "returned" /\ ret.fn = fn

\* C13: on an empty record set calculate_guest_metrics and
\* calculate_host_metrics return without raising, every numeric metric 0 and
\* every city metric 'N/A'.
C13_EmptySetMetrics ==
    /\ (Returned("calculate_guest_metrics") /\ Len(df) = 0) =>
          /\ ret.error = "none"
          /\ ret.metrics.total_properties = 0
          /\ ret.metrics.avg_price = Ratio(Num(0), Num(1))
          /\ ret.metrics.avg_rating = Ratio(Num(0), Num(1))
          /\ ret.metrics.pct_favourites = Ratio(Num(0), Num(1))
          /\ ret.metrics.most_popular_city = "N/A"
          /\ ret.metrics.best_value_city = "N/A"
    /\ (Returned("calculate_host_metrics") /\ Len(df) = 0) =>
          /\ ret.error = "none"
          /\ ret.metrics.total_revenue = Num(0)
          /\ ret.metrics.avg_occupancy = Ratio(Num(0), Num(1))
          /\ ret.metrics.total_hosts = 0
          /\ ret.metrics.avg_listings_per_host = Ratio(Num(0), Num(1))
          /\ ret.metrics.pct_certified = Ratio(Num(0), Num(1))
          /\ ret.metrics.best_city = "N/A"

\* the guest metrics of a set without records
C13_Witness ==
    /\ Returned("calculate_guest_metrics")
    /\ Len(df) = 0
    /\ ret.error = "none"
    /\ ret.metrics.best_value_city = "N/A"

\* the listings of one city
Listings(city) == SelectSeq(df, LAMBDA r : r["city"] = city)

\* the value score of a city as the claim defines it: mean rating over mean
\* price, 0 when the mean price is 0
Score(city) ==
    LET price == Mean(Listings(city), "price_clean")
        rating == Mean(Listings(city), "consumer_clean")
    IN IF price.num = Num(0) THEN Ratio(Num(0), Num(1))
       ELSE IF isna(price.num) \/ isna(rating.num) THEN Ratio(Missing, Num(1))
       ELSE Ratio(Mul(rating.num, price.den), Mul(rating.den, price.num))

\* C14: for every record set with records, best_value_city is a city of the
\* set and no city of the set has a greater value score; the call does not
\* fail.
C14_BestValueCity ==
    (Returned("calculate_guest_metrics") /\ Len(df) > 0) =>
        /\ ret.error = "none"
        /\ ret.metrics.best_value_city \in Column(df, "city") \ {NaN}
        /\ \A c \in Column(df, "city") \ {NaN} :
              ~RatioGT(Score(c), Score(ret.metrics.best_value_city))

RECURSIVE SumCounts(_)
\* the listing_count values of a table added up
SumCounts(table) ==
    IF table = <<>> THEN 0
    ELSE Head(table).listing_count + SumCounts(Tail(table))

\* the records of the set whose col is key
Members(frame, col, key) == {i \in 1..Len(frame) : frame[i][col] = key}

\* the records of the set that have an id
WithId(frame) == {i \in 1..Len(frame) : ~isna(frame[i]["id"])}

\* table has exactly one row per distinct value of col, the listing_count of
\* a row is the number of records of its group, and the counts add up to the
\* number of records
OneRowPerKey(table, col, frame) ==
    /\ {table[k][col] : k \in 1..Len(table)} = Column(frame, col)
    /\ Len(table) = Cardinality(Column(frame, col))
    /\ \A k \in 1..Len(table) :
          table[k].listing_count = Cardinality(Members(frame, col, table[k][col]))
    /\ SumCounts(table) = Len(frame)

\* table has exactly one row per distinct value of col that is not missing,
\* the listing_count of a row is the number of records of its group that have
\* an id, and the counts add up to the number of records with a key and an id
OneRowPerPresentKey(table, col, frame) ==
    /\ {table[k][col] : k \in 1..Len(table)} = Column(frame, col) \ {NaN}
    /\ Len(table) = Cardinality(Column(frame, col) \ {NaN})
    /\ \A k \in 1..Len(table) :
          table[k].listing_count =
              Cardinality(Members(frame, col, table[k][col]) \cap WithId(frame))
    /\ SumCounts(table) =
          Cardinality(WithId(frame) \ Members(frame, col, NaN))
    /\ \A j, k \in 1..Len(table) :
          j < k => Rank(table[j][col]) < Rank(table[k][col])

\* C22 as stated: for every record set get_city_stats returns exactly one
\* row per distinct city and get_area_stats one row per distinct area, and in
\* each table the listing_count values add up to the number of records.
C22_OneRowPerKey ==
    /\ Returned("get_city_stats") => OneRowPerKey(ret.frame, "city", df)
    /\ Returned("get_area_stats") => OneRowPerKey(ret.frame, "area", df)

\* C22: get_city_stats returns exactly one row per distinct city that is not
\* missing and get_area_stats one row per distinct area that is not missing,
\* in ascending key order;
\* listing_count of a row is the number of its group's records with an id,
\* so the counts add up to the number of records that have both a key and an
\* id.
C22_OneRowPerPresentKey ==
    /\ Returned("get_city_stats") => OneRowPerPresentKey(ret.frame, "city", df)
    /\ Returned("get_area_stats") => OneRowPerPresentKey(ret.frame, "area", df)

\* the city table of two records of two cities, one of them without an id:
\* two rows, whose counts are 1 and 0
C22_Witness ==
    /\ Returned("get_city_stats")
    /\ Len(df) = 2 /\ Len(ret.frame) = 2
    /\ WithId(df) # 1..2
    /\ SumCounts(ret.frame) = 1

\* the values of a column that are not missing, in row order
Present(frame, col) == SelectSeq(ColSeq(frame, col), LAMBDA x : ~isna(x))

RECURSIVE Total(_)
\* the sum of a sequence of numbers
Total(cells) ==
    IF cells = <<>> THEN Num(0) ELSE Add(Head(cells), Total(Tail(cells)))

\* the mean of the values that are not missing; NaN when there is none
MeanOfPresent(frame, col) ==
    IF Present(frame, col) = <<>> THEN NaNRatio
    ELSE Ratio(Total(Present(frame, col)), Num(Len(Present(frame, col))))

\* 100 times the share, among all the records of the set, of the records
\* whose flag is set
ShareOfAll(frame, flag) ==
    Ratio(Num(100 * Cardinality({i \in 1..Len(frame) : frame[i][flag]})),
          Num(Len(frame)))

\* a metric call on a set with at least one record returned its dictionary
Measured(fn) == Returned(fn) /\ ret.error = "none" /\ Len(df) > 0

\* C23: missing values are excluded from the aggregates: for a non-empty set
\* avg_price and avg_rating of calculate_guest_metrics are the means of the
\* price_clean and consumer_clean values that are not missing, total_revenue
\* of calculate_host_metrics is the sum of the revenue_estimate values that
\* are not missing, and every record, whatever it misses, counts in
\* total_properties and in the denominators of pct_favourites and
\* pct_certified.
C23_MissingExcluded ==
    /\ Measured("calculate_guest_metrics") =>
          /\ ret.metrics.avg_price = MeanOfPresent(df, "price_clean")
          /\ ret.metrics.avg_rating = MeanOfPresent(df, "consumer_clean")
          /\ ret.metrics.total_properties = Len(df)
          /\ ret.metrics.pct_favourites = ShareOfAll(df, "guest_favourite")
    /\ Measured("calculate_host_metrics") =>
          /\ ret.metrics.total_revenue = Total(Present(df, "revenue_estimate"))
          /\ ret.metrics.pct_certified = ShareOfAll(df, "host_certified")

\* the guest metrics of two records, one without a price and one without a
\* rating: each mean is over one value, both records are counted
C23_Witness ==
    /\ Measured("calculate_guest_metrics")
    /\ Len(df) = 2
    /\ Len(Present(df, "price_clean")) = 1
    /\ Len(Present(df, "consumer_clean")) = 1
    /\ ret.metrics.avg_price.den = Num(1)
    /\ ret.metrics.avg_rating.den = Num(1)
    /\ ret.metrics.total_properties = 2
    /\ ret.metrics.pct_favourites.den = Num(2)

------------------------------------------------------------------------------
(* Properties of the dashboard *)

\* neither path leads to a file that is read and cleaned
LoadingFails(fs, file) ==
    \/ fs.primary = "unreadable"
    \/ fs.primary = "absent" /\ fs.fallback # "present"
    \/ /\ fs.primary = "present" \/ fs.fallback = "present"
       /\ ~load_and_clean_data(file).ok

\* C15: whenever loading fails (no file at both paths, an unreadable file, a
\* file the cleaner fails on) load_data returns an error with no record set
\* and no statistics, and the run shows one error and stops: it does not
\* reach filter_data, the metrics or the charts.
C15_LoadFailureStops ==
    [][/\ loads' = loads + 1 => (LoadingFails(files, raw) <=> main_error' # "none")
       /\ main_error' # "none" =>
             /\ df' = <<>> /\ stats' = NoStats
             /\ ret'.fn = "none"
             /\ pc' \in {"loaded", "stopped"}
             /\ pc' = "loaded" => page'.elements = {}
             /\ pc' = "stopped" => page'.elements = {"error"}]_vars

\* a run that found no file at either path and stopped with the error
C15_Witness ==
    /\ main_error = "FileNotFoundError"
    /\ loads = 1
    /\ pc = "stopped"
    /\ page.elements = {"error"}
    /\ df = <<>>

RunFiltered == pc \in {"filtered", "stopped"} /\ ret.fn = "filter_data"

\* C16: when filter_data returns no record the run ends with a warning and
\* without an exception; no metric, table or chart is computed from the
\* empty set, and the summary shows zero placeholders.
C16_EmptyFilterWarns ==
    (RunFiltered /\ Len(ret.frame) = 0) =>
        /\ page.elements \cap {"exception", "tabs", "guest_metrics", "host_metrics",
                                "charts"} = {}
        /\ page.summary = [listings |-> 0, avg_price |-> Ratio(Num(0), Num(1)),
                           cities |-> 0]
        /\ pc = "stopped" => "warning" \in page.elements

\* a run on a loaded set with records whose filter kept none of them
C16_Witness ==
    /\ RunFiltered /\ pc = "stopped"
    /\ Len(df) > 0 /\ Len(ret.frame) = 0
    /\ args.min_reviews = 500
    /\ "warning" \in page.elements

\* csv is the records of the frame, in order, every column and no row label
IsExportOf(csv, frame) ==
    /\ Len(csv.lines) = Len(frame)
    /\ "index" \notin csv.columns
    /\ \A k \in 1..Len(frame) :
          /\ csv.columns = DOMAIN frame[k] \ {"index"}
          /\ DOMAIN csv.lines[k] = csv.columns
          /\ \A c \in csv.columns : csv.lines[k][c] = Field(c, frame[k][c])

\* C17 as stated: in every run that computes a filtered set the download is
\* offered for whatever the filter returned, and the export is the filtered
\* records without an index column.
C17_ExportAlwaysOffered ==
    RunFiltered =>
        /\ "download" \in page.elements
        /\ IsExportOf(page.csv, ret.frame)

\* C17 (amended): in every run that computes a filtered set the download is
\* offered exactly when the filtered set has records, and the export is then
\* those records, in order, with every column and no index column.
C17_ExportOffered ==
    RunFiltered =>
        /\ "download" \in page.elements <=> Len(ret.frame) > 0
        /\ "download" \in page.elements => IsExportOf(page.csv, ret.frame)

\* a download of one record out of two
C17_Witness ==
    /\ RunFiltered
    /\ Len(df) = 2 /\ Len(ret.frame) = 1
    /\ "download" \in page.elements
    /\ Len(page.csv.lines) = 1
    /\ page.csv.lines[1]["city"] = ret.frame[1]["city"]

\* C18: in a session the body of load_data runs at most once; once it has
\* run the cached triple never changes, and every run of main gets that
\* triple: the record set and statistics of the first load.
C18_LoadOnce ==
    [][/\ loads' <= 1
       /\ cache.hit => (cache' = cache /\ loads' = loads)
       /\ (pc' = "loaded" /\ pc # "loaded") =>
             /\ cache'.hit
             /\ Triple(df', stats', main_error') = cache'.value]_vars

\* a second run filters the set of the first load although the file on disk
\* has been replaced
C18_Witness ==
    /\ runs = 2 /\ loads = 1
    /\ pc = "filtered"
    /\ Len(ret.frame) > 0
    /\ df = cache.value.df
    /\ df # Cleaned(read_csv(raw))

\* no record of the result misses the column
NoneMissing(col) == \A j \in 1..Len(ret.frame) : ~isna(ret.frame[j][col])

\* C26: a supplied threshold predicate excludes the records whose field is
\* missing.  Every run of the dashboard passes the price slider's range, so
\* its filtered set holds no record with a missing price_clean; with
\* min_rating > 0 it holds none with a missing consumer_clean and with
\* min_reviews > 0 none with a missing total reviewers number; with
\* min_reviews <= 0 or min_rating <= 0 that predicate places no constraint:
\* every record that passes the other predicates is in the filtered set,
\* whatever it misses in that field.
C26_ThresholdsExcludeMissing ==
    RunFiltered =>
        /\ args.price_range.given
        /\ NoneMissing("price_clean")
        /\ Positive(args.min_rating) => NoneMissing("consumer_clean")
        /\ args.min_reviews > 0 => NoneMissing("total reviewers number")
        /\ (args.min_reviews <= 0 \/ ~Positive(args.min_rating)) =>
              \A i \in 1..Len(df) : PassesAll(df[i], args) => InResult(df[i])

\* default thresholds on a set of two records: the one without a price is
\* dropped by the price range, the one without a rating and without a
\* review count is kept
C26_Witness ==
    /\ RunFiltered
    /\ args.min_reviews = 0 /\ args.min_rating = Num(0)
    /\ Len(df) = 2 /\ Len(ret.frame) = 1
    /\ \E i \in 1..2 : isna(df[i]["price_clean"]) /\ ~InResult(df[i])
    /\ isna(ret.frame[1]["consumer_clean"])
    /\ isna(ret.frame[1]["total reviewers number"])

\* this step gives main the record set and the statistics, with no error
GivesData(frame, statistics) ==
    main_error' = "none" /\ df' = frame /\ stats' = statistics

\* this step gives main no record set, no statistics and the message
GivesError(message) ==
    main_error' = message /\ message # "none" /\ df' = <<>> /\ stats' = NoStats

\* this step gives main what loading the one path gives, whatever is at the
\* other path
GivesResultOf(state) ==
    /\ state = "absent" => GivesError("FileNotFoundError")
    /\ state = "unreadable" => GivesError("PermissionError")
    /\ (state = "present" /\ load_and_clean_data(raw).ok) =>
          GivesData(load_and_clean_data(raw).df, load_and_clean_data(raw).stats)
    /\ (state = "present" /\ ~load_and_clean_data(raw).ok) =>
          GivesError(load_and_clean_data(raw).error)

\* C28: load_data tries the fallback path if and only if the primary load
\* failed with file-not-found: with no file at the primary path it returns
\* what the fallback path gives, otherwise what the primary path gives, an
\* error of the primary included, whatever is at the fallback path.  Every
\* execution of its body returns to main (it never raises), with either a
\* record set, statistics and no error, or no set, no statistics and an
\* error message, never a mix.
C28_FallbackOnlyWhenNotFound ==
    [][loads' = loads + 1 =>
          /\ pc' = "loaded"
          /\ files.primary # "absent" => GivesResultOf(files.primary)
          /\ files.primary = "absent" => GivesResultOf(files.fallback)
          /\ \/ main_error' = "none" /\ load_and_clean_data(raw).ok
                /\ "present" \in {files.primary, files.fallback}
             \/ main_error' # "none" /\ df' = <<>> /\ stats' = NoStats]_vars

\* an unreadable file at the primary path and a good file at the fallback
\* path: the body ran once and returned the primary's error
C28_Witness ==
    /\ pc = "loaded" /\ loads = 1
    /\ files = [primary |-> "unreadable", fallback |-> "present"]
    /\ load_and_clean_data(raw).ok /\ Len(raw) > 0
    /\ main_error = "PermissionError"
    /\ df = <<>> /\ stats = NoStats

====
